---- MODULE Spec2Model ----
(***************************************************************************)
(* AIEventPlanner: the language-model boundary of the event planner.       *)
(*                                                                         *)
(* OpenAIService.generateEventPlan builds the user-input block from an     *)
(* event draft, awaits one completion call and recovers a structured plan  *)
(* from the completion text through a cascade of recovery steps;           *)
(* OpenAIService.generateEventPlanString flattens the plan to text.        *)
(*                                                                         *)
(* A text is a sequence of characters.  A character is a one-character     *)
(* string, except the four typographic quotes and the backtick, which a    *)
(* TLA+ string cannot hold and which are the named characters below.       *)
(***************************************************************************)
EXTENDS Integers, Sequences, FiniteSets, TLC

\* ------------------------------------------------------------------ texts

BACKTICK == "BACKTICK"   \* U+0060
LDQUO == "LDQUO"         \* U+201C, left curly double quote
RDQUO == "RDQUO"         \* U+201D, right curly double quote
LSQUO == "LSQUO"         \* U+2018, left curly single quote
RSQUO == "RSQUO"         \* U+2019, right curly single quote
BACKSPACE == "BACKSPACE" \* U+0008

\* The text of a string literal.
Chars(str) == [i \in 1..Len(str) |-> SubSeq(str, i, i)]

\* The texts over the characters A of length at most n.
RECURSIVE TextsUpTo(_, _)
TextsUpTo(A, n) ==
  IF n = 0 THEN {<<>>}
  ELSE LET shorter == TextsUpTo(A, n - 1)
       IN shorter \cup {Append(t, c) : t \in {u \in shorter : Len(u) = n - 1}, c \in A}

\* JavaScript's \s among the characters of the model.
RegexSpace == {" ", "\t", "\n", "\r", "\f"}

\* JSON's insignificant whitespace.
JsonSpace == {" ", "\t", "\n", "\r"}

\* Characters below U+0020, which a JSON string may not hold unescaped.
ControlChars == {"\t", "\n", "\r", "\f", BACKSPACE}

Digits == {"0", "1", "2", "3", "4", "5", "6", "7", "8", "9"}

HexDigits == Digits \cup {"a", "b", "c", "d", "e", "f", "A", "B", "C", "D", "E", "F"}

\* Whether the text lit occurs in s at position i (1-based).
MatchesAt(s, i, lit) ==
  /\ i >= 1
  /\ i + Len(lit) - 1 <= Len(s)
  /\ \A k \in 1..Len(lit) : s[i + k - 1] = lit[k]

\* ------------------------------------------------------------ JSON values

JNull == [t |-> "null"]
JBool(b) == [t |-> "bool", v |-> b]
\* A number is kept as its lexeme.
JNum(lexeme) == [t |-> "num", v |-> lexeme]
JStr(s) == [t |-> "str", v |-> s]
JArr(elems) == [t |-> "arr", v |-> elems]
\* An object is a function from its keys to their values.
JObj(members) == [t |-> "obj", v |-> members]

EmptyMembers == [k \in {} |-> JNull]

\* The value of property key of a decoded value: absent is JavaScript's undefined.
Undefined == [t |-> "undefined"]

HasProp(val, key) == val.t = "obj" /\ key \in DOMAIN val.v

Prop(val, key) == IF HasProp(val, key) THEN val.v[key] ELSE Undefined

\* ------------------------------------------------------------- JSON.parse

ParseFail == [ok |-> FALSE, val |-> JNull, pos |-> 0]

ParseOk(val, pos) == [ok |-> TRUE, val |-> val, pos |-> pos]

RECURSIVE SkipSpace(_, _)
SkipSpace(s, i) ==
  IF i <= Len(s) /\ s[i] \in JsonSpace THEN SkipSpace(s, i + 1) ELSE i

\* The first position at or after i that holds no digit.
RECURSIVE SkipDigits(_, _)
SkipDigits(s, i) ==
  IF i <= Len(s) /\ s[i] \in Digits THEN SkipDigits(s, i + 1) ELSE i

\* The character a simple escape stands for.
EscapeChar(c) ==
  CASE c = "\"" -> "\""
    [] c = "\\" -> "\\"
    [] c = "/" -> "/"
    [] c = "b" -> BACKSPACE
    [] c = "f" -> "\f"
    [] c = "n" -> "\n"
    [] c = "r" -> "\r"
    [] c = "t" -> "\t"

\* The character of a \uXXXX escape, named by its four hexadecimal digits.
UnicodeChar(hex) ==
  LET h == hex[1] \o hex[2] \o hex[3] \o hex[4]
  IN CASE h = "0022" -> "\""
       [] h = "0027" -> "'"
       [] h = "0060" -> BACKTICK
       [] h \in {"201C", "201c"} -> LDQUO
       [] h \in {"201D", "201d"} -> RDQUO
       [] h = "2018" -> LSQUO
       [] h = "2019" -> RSQUO
       [] OTHER -> "U+" \o h

\* The rest of a string whose opening quote has been read; acc is what was read.
RECURSIVE ParseStringBody(_, _, _)
ParseStringBody(s, i, acc) ==
  IF i > Len(s) THEN ParseFail
  ELSE IF s[i] = "\"" THEN ParseOk(JStr(acc), i + 1)
  ELSE IF s[i] = "\\" THEN
    IF i + 1 > Len(s) THEN ParseFail
    ELSE IF s[i + 1] \in {"\"", "\\", "/", "b", "f", "n", "r", "t"}
      THEN ParseStringBody(s, i + 2, Append(acc, EscapeChar(s[i + 1])))
    ELSE IF s[i + 1] = "u" /\ i + 5 <= Len(s)
                           /\ \A k \in 2..5 : s[i + k] \in HexDigits
      THEN ParseStringBody(s, i + 6, Append(acc, UnicodeChar(SubSeq(s, i + 2, i + 5))))
    ELSE ParseFail
  ELSE IF s[i] \in ControlChars THEN ParseFail
  ELSE ParseStringBody(s, i + 1, Append(acc, s[i]))

\* A number at position i: -? (0 | [1-9][0-9]*) (. [0-9]+)? ([eE] [+-]? [0-9]+)?
\* The number that started at position i and ends before position end.
NumberEnds(s, i, end) == ParseOk(JNum(SubSeq(s, i, end - 1)), end)

\* The digits of the exponent start at position from and end before position end.
ExponentDigits(s, i, from, end) ==
  IF end = from THEN ParseFail ELSE NumberEnds(s, i, end)

\* The exponent, if any, starts at position at.
Exponent(s, i, at) ==
  IF at <= Len(s) /\ s[at] \in {"e", "E"}
    THEN IF at + 1 <= Len(s) /\ s[at + 1] \in {"+", "-"}
           THEN ExponentDigits(s, i, at + 2, SkipDigits(s, at + 2))
           ELSE ExponentDigits(s, i, at + 1, SkipDigits(s, at + 1))
    ELSE NumberEnds(s, i, at)

\* The digits of the fraction start at position from and end before position end.
FractionDigits(s, i, from, end) ==
  IF end = from THEN ParseFail ELSE Exponent(s, i, end)

\* The digits of the integer part start at position from and end before position end.
IntegerDigits(s, i, from, end) ==
  IF end = from THEN ParseFail
  ELSE IF end <= Len(s) /\ s[end] = "."
    THEN FractionDigits(s, i, end + 1, SkipDigits(s, end + 1))
  ELSE Exponent(s, i, end)

\* The integer part starts at position from: a single 0, or digits.
IntegerPart(s, i, from) ==
  IF from <= Len(s) /\ s[from] = "0"
    THEN IntegerDigits(s, i, from, from + 1)
    ELSE IntegerDigits(s, i, from, SkipDigits(s, from))

ParseNumber(s, i) ==
  IF i <= Len(s) /\ s[i] = "-" THEN IntegerPart(s, i, i + 1) ELSE IntegerPart(s, i, i)

RECURSIVE ParseValue(_, _)
RECURSIVE ParseElements(_, _, _)
RECURSIVE ElementRead(_, _, _)
RECURSIVE ParseMembers(_, _, _)
RECURSIVE KeyRead(_, _, _)
RECURSIVE ColonAt(_, _, _, _)
RECURSIVE MemberRead(_, _, _, _)
RECURSIVE AfterMember(_, _, _)
RECURSIVE AfterOpen(_, _, _)

\* An element e of an array has been read; acc holds the elements before it.
ElementRead(s, acc, e) ==
  IF e.ok THEN ParseElements(s, SkipSpace(s, e.pos), Append(acc, e.val)) ELSE ParseFail

\* After an element of an array, at position j: a comma and the next element,
\* or the closing bracket; acc holds the elements read.
ParseElements(s, j, acc) ==
  IF j > Len(s) THEN ParseFail
  ELSE IF s[j] = "]" THEN ParseOk(JArr(acc), j + 1)
  ELSE IF s[j] = "," THEN ElementRead(s, acc, ParseValue(s, SkipSpace(s, j + 1)))
  ELSE ParseFail

\* After a member of an object, at position j: a comma and the next member, or
\* the closing brace.
AfterMember(s, j, members) ==
  IF j > Len(s) THEN ParseFail
  ELSE IF s[j] = "}" THEN ParseOk(JObj(members), j + 1)
  ELSE IF s[j] = "," THEN ParseMembers(s, SkipSpace(s, j + 1), members)
  ELSE ParseFail

\* The value e of the member key has been read.  A repeated key keeps its last value.
MemberRead(s, acc, key, e) ==
  IF e.ok THEN AfterMember(s, SkipSpace(s, e.pos), (key :> e.val) @@ acc) ELSE ParseFail

\* The colon of the member key is expected at position c.
ColonAt(s, acc, key, c) ==
  IF c > Len(s) \/ s[c] # ":" THEN ParseFail
  ELSE MemberRead(s, acc, key, ParseValue(s, SkipSpace(s, c + 1)))

\* The key k of a member has been read.
KeyRead(s, acc, k) ==
  IF k.ok THEN ColonAt(s, acc, k.val.v, SkipSpace(s, k.pos)) ELSE ParseFail

\* One member "key": value at position i, then the members after it; acc holds
\* the members read.
ParseMembers(s, i, acc) ==
  IF i > Len(s) \/ s[i] # "\"" THEN ParseFail
  ELSE KeyRead(s, acc, ParseStringBody(s, i + 1, <<>>))

\* After the opening bracket open of an object or an array, at position j.
AfterOpen(s, open, j) ==
  IF open = "{"
    THEN IF j <= Len(s) /\ s[j] = "}" THEN ParseOk(JObj(EmptyMembers), j + 1)
         ELSE ParseMembers(s, j, EmptyMembers)
    ELSE IF j <= Len(s) /\ s[j] = "]" THEN ParseOk(JArr(<<>>), j + 1)
         ELSE ElementRead(s, <<>>, ParseValue(s, j))

\* The JSON value that starts at position i.
ParseValue(s, i) ==
  IF i > Len(s) THEN ParseFail
  ELSE IF s[i] \in {"{", "["} THEN AfterOpen(s, s[i], SkipSpace(s, i + 1))
  ELSE IF s[i] = "\"" THEN ParseStringBody(s, i + 1, <<>>)
  ELSE IF s[i] \in Digits \cup {"-"} THEN ParseNumber(s, i)
  ELSE IF MatchesAt(s, i, Chars("true")) THEN ParseOk(JBool(TRUE), i + 4)
  ELSE IF MatchesAt(s, i, Chars("false")) THEN ParseOk(JBool(FALSE), i + 5)
  ELSE IF MatchesAt(s, i, Chars("null")) THEN ParseOk(JNull, i + 4)
  ELSE ParseFail

\* The value r read from the start of s is the whole of s but for whitespace.
WholeText(s, r) ==
  IF r.ok /\ SkipSpace(s, r.pos) = Len(s) + 1
    THEN [ok |-> TRUE, val |-> r.val]
    ELSE [ok |-> FALSE, val |-> JNull]

\* JSON.parse(s): ok is FALSE where JSON.parse throws a SyntaxError.
JSONParse(s) == WholeText(s, ParseValue(s, SkipSpace(s, 1)))

\* ------------------------------------------------- the recovery strategies

Fence == <<BACKTICK, BACKTICK, BACKTICK>>

\* The least and the greatest member of a non-empty set of positions.
MinOf(S) == CHOOSE x \in S : \A y \in S : x <= y

MaxOf(S) == CHOOSE x \in S : \A y \in S : x >= y

\* The same, with 0 for the empty set.
MinOrZero(S) == IF S = {} THEN 0 ELSE MinOf(S)

MaxOrZero(S) == IF S = {} THEN 0 ELSE MaxOf(S)

\* The first position at or after i that holds no \s character.
RECURSIVE SkipRegexSpace(_, _)
SkipRegexSpace(s, i) ==
  IF i <= Len(s) /\ s[i] \in RegexSpace THEN SkipRegexSpace(s, i + 1) ELSE i

\* The last position at or before i that holds no \s character, 0 when there is none.
RECURSIVE SkipRegexSpaceBack(_, _)
SkipRegexSpaceBack(s, i) ==
  IF i >= 1 /\ s[i] \in RegexSpace THEN SkipRegexSpaceBack(s, i - 1) ELSE i

\* The first position at or after i where a fence starts, 0 when there is none.
FirstFence(s, i) == MinOrZero({k \in i..Len(s) : MatchesAt(s, k, Fence)})

\* The first position q at or after i where \n?``` matches, 0 when there is none.
FirstClosingFence(s, i) ==
  MinOrZero({q \in i..Len(s) :
               (s[q] = "\n" /\ MatchesAt(s, q + 1, Fence)) \/ MatchesAt(s, q, Fence)})

\* The group of the match whose inside starts at position inner and whose
\* closing fence was found at position close (0: not found).
FenceGroup(s, inner, close) ==
  IF close = 0
    THEN [found |-> FALSE, group |-> <<>>]
    ELSE [found |-> TRUE, group |-> SubSeq(s, inner, close - 1)]

\* The pattern without its closing fence: the lazy group matches nothing.
FenceInsideUnclosed(s, inner) == [found |-> TRUE, group |-> <<>>]

\* The inside of the match starts at position inner.
FenceInside(s, inner) == FenceGroup(s, inner, FirstClosingFence(s, inner))

\* The first fence is at position open (0: there is none).
FenceOpenedAt(s, open) ==
  IF open = 0 THEN [found |-> FALSE, group |-> <<>>]
  ELSE IF MatchesAt(s, open + 3, Chars("json"))
    THEN FenceInside(s, SkipRegexSpace(s, open + 7))
  ELSE FenceInside(s, SkipRegexSpace(s, open + 3))

\* cleanedContent.match(/```(?:json)?\s*\n?([\s\S]*?)\n?```/): the match starts at
\* the first fence; (?:json)? and \s* are greedy and what they take holds no
\* backtick, so giving any of it back finds no other closing fence; the lazy
\* group ends at the first place where \n?``` matches.
FenceMatch(s) == FenceOpenedAt(s, FirstFence(s, 1))

\* if (jsonMatch) cleanedContent = jsonMatch[1]
GroupOr(jsonMatch, s) == IF jsonMatch.found THEN jsonMatch.group ELSE s

\* Strategy 1: the inside of the first fenced block, when there is one.
FencedExtract(s) == GroupOr(FenceMatch(s), s)

\* s.indexOf(c) from position i, 1-based; 0 is JavaScript's -1.
IndexOf(s, c, i) == MinOrZero({k \in i..Len(s) : s[k] = c})

\* s.lastIndexOf(c) searching down from position i, 1-based; 0 is JavaScript's -1.
LastIndexOf(s, c, i) == MaxOrZero({k \in 1..i : s[k] = c})

\* substring(jsonStart, jsonEnd): the span without its closing brace.
SpanWithoutEnd(s, jsonStart, jsonEnd) ==
  IF jsonStart # 0 /\ jsonEnd # 0 /\ jsonEnd > jsonStart
    THEN SubSeq(s, jsonStart, jsonEnd - 1)
    ELSE s

\* The span from jsonStart to jsonEnd, when both were found in that order.
Span(s, jsonStart, jsonEnd) ==
  IF jsonStart # 0 /\ jsonEnd # 0 /\ jsonEnd > jsonStart
    THEN SubSeq(s, jsonStart, jsonEnd)
    ELSE s

\* Strategy 2: the span from the first '{' to the last '}'.
BoundaryExtract(s) == Span(s, IndexOf(s, "{", 1), LastIndexOf(s, "}", Len(s)))

\* The characters of s at positions lo..hi whose position deleted does not hold.
RECURSIVE WithoutDeleted(_, _, _, _)
WithoutDeleted(s, deleted, lo, hi) ==
  IF lo > hi THEN <<>>
  ELSE IF lo = hi THEN (IF lo \in deleted THEN <<>> ELSE <<s[lo]>>)
  ELSE LET mid == (lo + hi) \div 2
       IN WithoutDeleted(s, deleted, lo, mid) \o WithoutDeleted(s, deleted, mid + 1, hi)

\* The first position of the run of backticks that holds position i.
RECURSIVE BacktickRunStart(_, _)
BacktickRunStart(s, i) ==
  IF i > 1 /\ s[i - 1] = BACKTICK THEN BacktickRunStart(s, i - 1) ELSE i

\* The last position of the run of backticks that holds position i.
RECURSIVE BacktickRunEnd(_, _)
BacktickRunEnd(s, i) ==
  IF i < Len(s) /\ s[i + 1] = BACKTICK THEN BacktickRunEnd(s, i + 1) ELSE i

\* .replace(/```/g, ""): the matches are found left to right and do not overlap,
\* so a run of n backticks loses its first 3 * (n div 3).
InFence(i, from, to) == i - from < 3 * ((to - from + 1) \div 3)

RemoveFences(s) ==
  WithoutDeleted(s, {i \in 1..Len(s) :
                       /\ s[i] = BACKTICK
                       /\ InFence(i, BacktickRunStart(s, i), BacktickRunEnd(s, i))},
                 1, Len(s))

\* .replace(/`/g, "")
RemoveBackticks(s) ==
  WithoutDeleted(s, {i \in 1..Len(s) : s[i] = BACKTICK}, 1, Len(s))

\* /,\s*([}\]])/ matches at position i.
ClosingBracketAt(s, j) == j <= Len(s) /\ s[j] \in {"}", "]"}

TrailingCommaAt(s, i) ==
  i >= 1 /\ i <= Len(s) /\ s[i] = "," /\ ClosingBracketAt(s, SkipRegexSpace(s, i + 1))

\* The pattern without its g flag: the first match alone is replaced.
RemoveFirstTrailingComma(s) ==
  WithoutDeleted(s, {i \in 1..Len(s) :
                       /\ \/ TrailingCommaAt(s, i)
                          \/ /\ s[i] \in RegexSpace
                             /\ TrailingCommaAt(s, SkipRegexSpaceBack(s, i))
                       /\ \A k \in 1..(i - 1) :
                            TrailingCommaAt(s, k) => SkipRegexSpace(s, k + 1) > i},
                 1, Len(s))

\* .replace(/,\s*([}\]])/g, "$1"): a match is one comma, the whitespace after it
\* and a closing bracket, so no two matches overlap; the comma and the whitespace go.
RemoveTrailingCommas(s) ==
  WithoutDeleted(s, {i \in 1..Len(s) :
                       \/ TrailingCommaAt(s, i)
                       \/ /\ s[i] \in RegexSpace
                          /\ TrailingCommaAt(s, SkipRegexSpaceBack(s, i))},
                 1, Len(s))

\* .replace(/\n\s*\n/g, "\n"): in a run of whitespace the match starts at the
\* first newline; the greedy \s* takes the rest of the run and gives back down to
\* its last newline; what is left of the run holds no newline.  The first
\* newline stays as the replacement and the characters up to the last one go.
AfterFirstUpToLast(i, first, last) == first # 0 /\ first < i /\ i <= last

RemoveEmptyLines(s) ==
  WithoutDeleted(s, {i \in 1..Len(s) :
                       /\ s[i] \in RegexSpace
                       /\ AfterFirstUpToLast(i,
                            IndexOf(s, "\n", SkipRegexSpaceBack(s, i) + 1),
                            LastIndexOf(s, "\n", SkipRegexSpace(s, i) - 1))},
                 1, Len(s))

\* .replace(/^\s+|\s+$/g, "")
TrimWhitespace(s) == SubSeq(s, SkipRegexSpace(s, 1), SkipRegexSpaceBack(s, Len(s)))

\* .replace(/[“”]/g, '"')
ReplaceSmartDoubleQuotes(s) ==
  [i \in 1..Len(s) |-> IF s[i] \in {LDQUO, RDQUO} THEN "\"" ELSE s[i]]

\* .replace(/[‘’]/g, "'")
ReplaceSmartSingleQuotes(s) ==
  [i \in 1..Len(s) |-> IF s[i] \in {LSQUO, RSQUO} THEN "'" ELSE s[i]]

\* Strategy 3: the chain of replacements, in the order of the code.
Sanitize(s) ==
  ReplaceSmartSingleQuotes(
    ReplaceSmartDoubleQuotes(
      TrimWhitespace(
        RemoveEmptyLines(
          RemoveTrailingCommas(
            RemoveBackticks(
              RemoveFences(s)))))))

\* The keys of the plan schema.
Overview == Chars("overview")
Timeline == Chars("timeline")
Schedule == Chars("schedule")
Logistics == Chars("logistics")
Materials == Chars("materials")
Recommendations == Chars("recommendations")
Tips == Chars("tips")
Time == Chars("time")
Activity == Chars("activity")
Details == Chars("details")
Location == Chars("location")

\* The last resort of generateEventPlan.
\* The fallback without its notices.
EmptyPlan ==
  JObj((Overview :> JStr(<<>>)) @@ (Timeline :> JArr(<<>>)) @@ (Schedule :> JArr(<<>>))
       @@ (Logistics :> JArr(<<>>)) @@ (Materials :> JArr(<<>>))
       @@ (Recommendations :> JArr(<<>>)) @@ (Tips :> JArr(<<>>)))

FallbackPlan ==
  JObj((Overview :> JStr(Chars("Unable to parse AI response. Please regenerate the plan.")))
    @@ (Timeline :> JArr(<<>>))
    @@ (Schedule :> JArr(<<>>))
    @@ (Logistics :> JArr(<<JStr(Chars("Error occurred during plan generation"))>>))
    @@ (Materials :> JArr(<<>>))
    @@ (Recommendations :> JArr(<<JStr(Chars("Please try regenerating the AI plan"))>>))
    @@ (Tips :> JArr(<<>>)))

\* What generateEventPlan makes of a non-empty completion text, as one function.
ValueOr(parsed, otherwise) == IF parsed.ok THEN parsed.val ELSE otherwise

NormalizeResponse(s) ==
  ValueOr(JSONParse(s),
          ValueOr(JSONParse(Sanitize(BoundaryExtract(FencedExtract(s)))), FallbackPlan))

\* ------------------------------------------------------- the plan's shape

IsString(val) == val.t = "str"

IsArrayOf(val, Elem(_)) == val.t = "arr" /\ \A i \in 1..Len(val.v) : Elem(val.v[i])

IsTimelineEntry(val) ==
  val.t = "obj" /\ IsString(Prop(val, Time)) /\ IsString(Prop(val, Activity))

IsScheduleEntry(val) ==
  /\ val.t = "obj"
  /\ IsString(Prop(val, Activity))
  /\ IsString(Prop(val, Details))
  /\ IsString(Prop(val, Location))

\* interface EventPlanResponse
IsEventPlanResponse(val) ==
  /\ val.t = "obj"
  /\ IsString(Prop(val, Overview))
  /\ IsArrayOf(Prop(val, Timeline), IsTimelineEntry)
  /\ IsArrayOf(Prop(val, Schedule), IsScheduleEntry)
  /\ IsArrayOf(Prop(val, Logistics), IsString)
  /\ IsArrayOf(Prop(val, Materials), IsString)
  /\ IsArrayOf(Prop(val, Recommendations), IsString)
  /\ IsArrayOf(Prop(val, Tips), IsString)

\* ---------------------------------------------------------- plan flattening

RECURSIVE JoinTexts(_, _)
JoinTexts(texts, sep) ==
  IF texts = <<>> THEN <<>>
  ELSE IF Len(texts) = 1 THEN texts[1]
  ELSE texts[1] \o sep \o JoinTexts(Tail(texts), sep)

\* `${val}` in a template literal.  A number renders as its lexeme, which is what
\* JavaScript prints for the integers and short decimals a plan holds.
RECURSIVE TemplateText(_)
TemplateText(val) ==
  CASE val.t = "str" -> val.v
    [] val.t = "num" -> val.v
    [] val.t = "bool" -> IF val.v THEN Chars("true") ELSE Chars("false")
    [] val.t = "null" -> Chars("null")
    [] val.t = "undefined" -> Chars("undefined")
    [] val.t = "obj" -> Chars("[object Object]")
    [] val.t = "arr" ->
         JoinTexts([i \in 1..Len(val.v) |->
                      IF val.v[i].t = "null" THEN <<>> ELSE TemplateText(val.v[i])],
                   Chars(","))

\* Whether a number lexeme is greater than 0.
LexemePositive(lexeme) ==
  /\ lexeme # <<>>
  /\ lexeme[1] # "-"
  /\ \E i \in 1..Len(lexeme) :
       /\ lexeme[i] \in Digits \ {"0"}
       /\ \A k \in 1..i : lexeme[k] \notin {"e", "E"}

\* structuredPlan.<field>.length > 0.  Reading .length of undefined or null throws;
\* a number or a boolean has no length, and undefined > 0 is false; the length of
\* an object is its own "length" property, compared as a number.
\* The text is a number and nothing more.
IsNumberText(text, read) == read.ok /\ read.pos = Len(text) + 1

\* len > 0, where len is any value: a string is converted to a number first.
AboveZero(len) ==
  \/ len.t = "num" /\ LexemePositive(len.v)
  \/ len.t = "bool" /\ len.v
  \/ len.t = "str" /\ len.v # <<>> /\ IsNumberText(len.v, ParseNumber(len.v, 1))
                   /\ LexemePositive(len.v)

LengthRead(field) ==
  CASE field.t \in {"undefined", "null"} -> [throws |-> TRUE, positive |-> FALSE]
    [] field.t \in {"arr", "str"} -> [throws |-> FALSE, positive |-> Len(field.v) > 0]
    [] field.t = "obj" ->
         [throws |-> FALSE, positive |-> AboveZero(Prop(field, Chars("length")))]
    [] OTHER -> [throws |-> FALSE, positive |-> FALSE]

\* `- **${item.time}:** ${item.activity}\n`
TimelineLine(item) ==
  Chars("- **") \o TemplateText(Prop(item, Time)) \o Chars(":** ")
    \o TemplateText(Prop(item, Activity)) \o Chars("\n")

\* `- **${item.activity}** - ${item.details} (Location: ${item.location})\n`
ScheduleLine(item) ==
  Chars("- **") \o TemplateText(Prop(item, Activity)) \o Chars("** - ")
    \o TemplateText(Prop(item, Details)) \o Chars(" (Location: ")
    \o TemplateText(Prop(item, Location)) \o Chars(")\n")

\* `- ${item}\n`
BulletLine(item) == Chars("- ") \o TemplateText(item) \o Chars("\n")

RECURSIVE ConcatTexts(_)
ConcatTexts(texts) ==
  IF texts = <<>> THEN <<>> ELSE texts[1] \o ConcatTexts(Tail(texts))

\* The sections after the overview, in the order the code builds them.
SectionFields == <<Timeline, Schedule, Logistics, Materials, Recommendations, Tips>>

SectionHeaders ==
  << Chars("## Timeline\n"), Chars("## Activity Schedule\n"), Chars("## Logistics\n"),
     Chars("## Materials Needed\n"), Chars("## Recommendations\n"),
     Chars("## Tips for Success\n") >>

\* The line of one item of section n.
SectionLine(n, item) ==
  CASE n = 1 -> TimelineLine(item)
    [] n = 2 -> ScheduleLine(item)
    [] OTHER -> BulletLine(item)

\* Section n of the rendering, once the length of its field has been read:
\* nothing when the length is not above 0; forEach exists on arrays only; the
\* timeline and schedule lines read properties of each item, which throws on a
\* null item; every section but the last closes with an empty line.
SectionAlwaysHeaded(n, field, len) ==
  IF len.throws THEN [throws |-> TRUE, text |-> <<>>]
  ELSE IF field.t # "arr" THEN [throws |-> ~len.positive, text |-> <<>>]
  ELSE [throws |-> FALSE,
        text |-> SectionHeaders[n]
                   \o ConcatTexts([i \in 1..Len(field.v) |-> SectionLine(n, field.v[i])])
                   \o (IF n < 6 THEN Chars("\n") ELSE <<>>)]

SectionOf(n, field, len) ==
  IF len.throws THEN [throws |-> TRUE, text |-> <<>>]
  ELSE IF ~len.positive THEN [throws |-> FALSE, text |-> <<>>]
  ELSE IF field.t # "arr" THEN [throws |-> TRUE, text |-> <<>>]
  ELSE IF n <= 2 /\ \E i \in 1..Len(field.v) : field.v[i].t = "null"
    THEN [throws |-> TRUE, text |-> <<>>]
  ELSE [throws |-> FALSE,
        text |-> SectionHeaders[n]
                   \o ConcatTexts([i \in 1..Len(field.v) |-> SectionLine(n, field.v[i])])
                   \o (IF n < 6 THEN Chars("\n") ELSE <<>>)]

Section(n, field) == SectionOf(n, field, LengthRead(field))

\* The overview and the sections put together; the first section that throws
\* ends the function.
Formatted(head, sections) ==
  IF \E i \in 1..6 : sections[i].throws
    THEN [throws |-> TRUE, text |-> <<>>]
    ELSE [throws |-> FALSE, text |-> head \o ConcatTexts([i \in 1..6 |-> sections[i].text])]

\* The body of generateEventPlanString after generateEventPlan has returned
\* structuredPlan: the formatted plan, or throws where the code raises a TypeError.
FormatPlan(structuredPlan) ==
  IF structuredPlan.t = "null"
    THEN [throws |-> TRUE, text |-> <<>>]
    ELSE Formatted(Chars("## Event Overview\n")
                     \o TemplateText(Prop(structuredPlan, Overview)) \o Chars("\n\n"),
                   [n \in 1..6 |-> Section(n, Prop(structuredPlan, SectionFields[n]))])

\* ------------------------------------------------------- the prompt builder

\* An event draft (CreateEventData) is a function from the fields it holds to
\* their values; a field outside its domain is undefined.

\* eventData.<field> is truthy: a string other than "", a number other than 0, true.
TruthyText(eventData, field) == field \in DOMAIN eventData /\ eventData[field] # ""

TruthyNumber(eventData, field) == field \in DOMAIN eventData /\ eventData[field] # 0

TruthyFlag(eventData, field) == field \in DOMAIN eventData /\ eventData[field]

\* eventData.<field> && eventData.<field>.length > 0
NonEmptyList(eventData, field) == field \in DOMAIN eventData /\ Len(eventData[field]) > 0

\* An event stored by an earlier version of the application holds its questions
\* as one string, not as a list of Question (migrateQuestionsData). A field of
\* the model holds values of one kind, so the string s is written as the list
\* of the single entry [legacy |-> s], which no list of Question is.
LegacyQuestions(s) == <<[legacy |-> s]>>

\* typeof aiQuestions === "string"
IsLegacyQuestions(aiQuestions) == Len(aiQuestions) = 1 /\ "legacy" \in DOMAIN aiQuestions[1]

\* aiQuestions.length: of a string, the number of its characters
QuestionsLength(aiQuestions) ==
  IF IsLegacyQuestions(aiQuestions) THEN Len(aiQuestions[1].legacy) ELSE Len(aiQuestions)

\* eventData.aiQuestions && eventData.aiQuestions.length > 0
NonEmptyQuestions(eventData) ==
  "aiQuestions" \in DOMAIN eventData /\ QuestionsLength(eventData.aiQuestions) > 0

\* texts.join(sep), on strings
RECURSIVE JoinStrings(_, _)
JoinStrings(texts, sep) ==
  IF texts = <<>> THEN ""
  ELSE IF Len(texts) = 1 THEN texts[1]
  ELSE texts[1] \o sep \o JoinStrings(Tail(texts), sep)

\* A field left out is rendered as nothing.
TextOrNothing(eventData, field) ==
  IF TruthyText(eventData, field) THEN eventData[field] ELSE ""

\* `${eventData.<field> || "Not specified"}`
TextOrNotSpecified(eventData, field) ==
  IF TruthyText(eventData, field) THEN eventData[field] ELSE "Not specified"

\* `${a.name}${a.description ? ` (${a.description})` : ""}`
ActivityText(a) ==
  a.name \o (IF TruthyText(a, "description") THEN " (" \o a.description \o ")" ELSE "")

\* The summary with its own check of the attendee count: absent, not falsy.
getNotSpecifiedFieldsOwnCheck(eventData) ==
  LET notSpecified ==
        (IF ~TruthyText(eventData, "name") THEN <<"Title">> ELSE <<>>)
        \o (IF ~TruthyText(eventData, "description") THEN <<"Description">> ELSE <<>>)
        \o (IF "numberOfPeople" \notin DOMAIN eventData THEN <<"Attendees">> ELSE <<>>)
        \o (IF ~TruthyText(eventData, "location") THEN <<"Location">> ELSE <<>>)
        \o (IF ~TruthyText(eventData, "goal") THEN <<"Purpose">> ELSE <<>>)
        \o (IF "selectedDates" \notin DOMAIN eventData \/ Len(eventData.selectedDates) = 0
              THEN <<"Date">> ELSE <<>>)
        \o (IF ~TruthyText(eventData, "startTime") THEN <<"Start Time">> ELSE <<>>)
        \o (IF ~TruthyText(eventData, "endTime") THEN <<"End Time">> ELSE <<>>)
        \o (IF "activities" \notin DOMAIN eventData \/ Len(eventData.activities) = 0
              THEN <<"Activities">> ELSE <<>>)
        \o (IF ~NonEmptyQuestions(eventData) THEN <<"Questions for AI">> ELSE <<>>)
  IN IF Len(notSpecified) > 0 THEN JoinStrings(notSpecified, ", ") ELSE "None"

getNotSpecifiedFields(eventData) ==
  LET notSpecified ==
        (IF ~TruthyText(eventData, "name") THEN <<"Title">> ELSE <<>>)
        \o (IF ~TruthyText(eventData, "description") THEN <<"Description">> ELSE <<>>)
        \o (IF ~TruthyNumber(eventData, "numberOfPeople") THEN <<"Attendees">> ELSE <<>>)
        \o (IF ~TruthyText(eventData, "location") THEN <<"Location">> ELSE <<>>)
        \o (IF ~TruthyText(eventData, "goal") THEN <<"Purpose">> ELSE <<>>)
        \o (IF "selectedDates" \notin DOMAIN eventData \/ Len(eventData.selectedDates) = 0
              THEN <<"Date">> ELSE <<>>)
        \o (IF ~TruthyText(eventData, "startTime") THEN <<"Start Time">> ELSE <<>>)
        \o (IF ~TruthyText(eventData, "endTime") THEN <<"End Time">> ELSE <<>>)
        \o (IF "activities" \notin DOMAIN eventData \/ Len(eventData.activities) = 0
              THEN <<"Activities">> ELSE <<>>)
        \o (IF ~NonEmptyQuestions(eventData) THEN <<"Questions for AI">> ELSE <<>>)
  IN IF Len(notSpecified) > 0 THEN JoinStrings(notSpecified, ", ") ELSE "None"

\* eventData.aiQuestions.map(...) where aiQuestions is a non-empty string: a
\* string has no map, and the call raises a TypeError.
buildEventInputThrows(eventData) ==
  NonEmptyQuestions(eventData) /\ IsLegacyQuestions(eventData.aiQuestions)

\* The block buildEventInput returns, when it returns.
buildEventInput(eventData) ==
  JoinStrings(<<
    "- **Title:** " \o TextOrNotSpecified(eventData, "name"),
    "- **Description:** " \o TextOrNotSpecified(eventData, "description"),
    "- **Attendees:** " \o (IF TruthyNumber(eventData, "numberOfPeople")
                              THEN ToString(eventData.numberOfPeople)
                              ELSE "Not specified"),
    "- **Location:** " \o TextOrNotSpecified(eventData, "location"),
    "- **Purpose:** " \o TextOrNotSpecified(eventData, "goal"),
    "- **Date:** " \o (IF NonEmptyList(eventData, "selectedDates")
                         THEN JoinStrings(eventData.selectedDates, ", ")
                         ELSE "Not specified"),
    "- **Start Time:** " \o TextOrNotSpecified(eventData, "startTime"),
    "- **End Time:** " \o TextOrNotSpecified(eventData, "endTime"),
    "- **Recurring:** " \o (IF TruthyFlag(eventData, "isRecurring")
                              THEN "Yes (" \o (IF TruthyText(eventData, "recurringFrequency")
                                                 THEN eventData.recurringFrequency
                                                 ELSE "frequency not specified") \o ")"
                              ELSE "No"),
    "- **Activities:** " \o (IF NonEmptyList(eventData, "activities")
                               THEN JoinStrings([i \in 1..Len(eventData.activities) |->
                                                   ActivityText(eventData.activities[i])], ", ")
                               ELSE "Not specified"),
    "- **Questions for AI:** " \o (IF NonEmptyQuestions(eventData)
                                     THEN JoinStrings([i \in 1..Len(eventData.aiQuestions) |->
                                                         eventData.aiQuestions[i].question], "; ")
                                     ELSE "Not specified"),
    "- **Not specified fields:** " \o getNotSpecifiedFields(eventData)
  >>, "\n")

\* ------------------------------------------------- the completion endpoint

\* The longest text of arbitrary characters the endpoint answers with.
MaxRawLen == 2

\* The longest prose the endpoint writes before and after a plan's JSON text.
MaxProseLen == 1

\* The longest list of dates, activities or questions in a draft.
MaxListLen == 2

RawChars ==
  {"{", "}", "[", "]", "\"", ",", ":", " ", "\n", "1", "a", BACKTICK, LDQUO, RSQUO}

ProseChars == {"H", " ", "{", "}", "[", "]"}

\* The text of a string inside JSON text: quotes, backslashes and control
\* characters escaped.
EscapedText(str) ==
  ConcatTexts([i \in 1..Len(str) |->
    CASE str[i] = "\"" -> Chars("\\\"")
      [] str[i] = "\\" -> Chars("\\\\")
      [] str[i] = "\n" -> Chars("\\n")
      [] str[i] = "\r" -> Chars("\\r")
      [] str[i] = "\t" -> Chars("\\t")
      [] str[i] = "\f" -> Chars("\\f")
      [] str[i] = BACKSPACE -> Chars("\\b")
      [] OTHER -> <<str[i]>>])

\* The order in which the endpoint writes the keys of the schema.
KeyOrder ==
  <<Overview, Timeline, Schedule, Logistics, Materials, Recommendations, Tips,
    Time, Activity, Details, Location>>

\* The keys of an object, in that order.
KeysOf(val) == SelectSeq(KeyOrder, LAMBDA k : k \in DOMAIN val.v)

\* The JSON text the endpoint writes for a value; trailing is what it writes
\* before the closing bracket of every non-empty array and object: nothing, or a
\* trailing comma.
RECURSIVE JsonText(_, _)
JsonText(val, trailing) ==
  CASE val.t = "null" -> Chars("null")
    [] val.t = "bool" -> IF val.v THEN Chars("true") ELSE Chars("false")
    [] val.t = "num" -> val.v
    [] val.t = "str" -> <<"\"">> \o EscapedText(val.v) \o <<"\"">>
    [] val.t = "arr" ->
         IF val.v = <<>> THEN Chars("[]")
         ELSE <<"[">> \o JoinTexts([i \in 1..Len(val.v) |-> JsonText(val.v[i], trailing)],
                                   <<",">>)
                \o trailing \o <<"]">>
    [] val.t = "obj" ->
         IF DOMAIN val.v = {} THEN Chars("{}")
         ELSE <<"{">> \o JoinTexts([i \in 1..Cardinality(DOMAIN val.v) |->
                                      <<"\"">> \o EscapedText(KeysOf(val)[i]) \o Chars("\":")
                                        \o JsonText(val.v[KeysOf(val)[i]], trailing)],
                                   <<",">>)
                \o trailing \o <<"}">>

\* A plan of the schema: every collection empty, or the first three with one entry.
PlanOf(overview, filled) ==
  JObj((Overview :> JStr(overview))
    @@ (Timeline :> JArr(IF filled
          THEN <<JObj((Time :> JStr(Chars("9:00 AM"))) @@ (Activity :> JStr(Chars("Doors"))))>>
          ELSE <<>>))
    @@ (Schedule :> JArr(IF filled
          THEN <<JObj((Activity :> JStr(Chars("Toast"))) @@ (Details :> JStr(Chars("Host")))
                        @@ (Location :> JStr(Chars("Hall"))))>>
          ELSE <<>>))
    @@ (Logistics :> JArr(IF filled THEN <<JStr(Chars("Chairs"))>> ELSE <<>>))
    @@ (Materials :> JArr(<<>>))
    @@ (Recommendations :> JArr(<<>>))
    @@ (Tips :> JArr(IF filled THEN <<JStr(Chars("Smile")), JStr(Chars("Relax"))>> ELSE <<>>)))

\* A plan with only its overview and its tips populated.
TipsOnlyPlan ==
  JObj((Overview :> JStr(Chars("x")))
    @@ (Timeline :> JArr(<<>>)) @@ (Schedule :> JArr(<<>>)) @@ (Logistics :> JArr(<<>>))
    @@ (Materials :> JArr(<<>>)) @@ (Recommendations :> JArr(<<>>))
    @@ (Tips :> JArr(<<JStr(Chars("Smile"))>>)))

\* Overviews whose characters the sanitation leaves alone, and overviews with a
\* backtick, curly quotes, a comma before a closing bracket, a fence, braces.
PlainOverviews == {Chars("x"), Chars("Fun {night}"), Chars("a\n\nb"), Chars("say \"hi\"")}

OddOverviews ==
  { <<"a", BACKTICK, "b">>,
    <<"I", "t", RSQUO, "s">>,
    <<LSQUO, "q", RSQUO>>,
    <<LDQUO, "h", "i", RDQUO>>,
    Chars("a,]"),
    Chars("a, }b"),
    Fence \o Chars("x") \o Fence }

EndpointPlans ==
  {PlanOf(o, FALSE) : o \in PlainOverviews \cup OddOverviews}
    \cup {PlanOf(o, TRUE) : o \in {Chars("x"), <<"I", "t", RSQUO, "s">>}}

ProseTexts ==
  TextsUpTo(ProseChars, MaxProseLen)
    \cup {Chars("Here is your plan:\n"), Chars("\nEnjoy!"),
          Chars("\nRun it:\n") \o Fence \o Chars("sh\nopen plan\n") \o Fence}

\* What the endpoint answers: a plan's JSON text, with or without trailing
\* commas, bare or in a fenced block, or a plan's JSON text between prose; or a
\* text of arbitrary characters.
PlanAnswers ==
  {[style |-> "plan", plan |-> p, trailing |-> c, fence |-> f, before |-> <<>>, after |-> <<>>] :
     p \in EndpointPlans, c \in {<<>>, <<",">>, <<",", "\n">>}, f \in {"none", "plain", "json"}}

ProseAnswers ==
  {[style |-> "plan", plan |-> p, trailing |-> <<>>, fence |-> "none", before |-> b, after |-> a] :
     p \in {PlanOf(Chars("x"), FALSE), PlanOf(<<"I", "t", RSQUO, "s">>, FALSE)},
     b \in ProseTexts, a \in ProseTexts}

RawTexts ==
  TextsUpTo(RawChars, MaxRawLen)
    \cup { Chars("not json at all"), Chars("null"), Chars("true"), Chars("-1.5e3"),
           Chars("\"plan\""), Chars("{\"overview\":\"x\"}"),
           Chars("{\"overview\":\"x\",\"timeline\":null}"),
           Chars("Plan: {\"overview\":\"x\",} done"),
           Chars("{\"overview\":\"x\",,}"),
           Chars(" \n\t "),
           JsonText(TipsOnlyPlan, <<>>) }

RawAnswers == {[style |-> "raw", text |-> t] : t \in RawTexts}

Answers == PlanAnswers \cup ProseAnswers \cup RawAnswers

\* The text of an answer.
\* A JSON text as the endpoint presents it: bare, or in a fenced block.
Presented(json, fence) ==
  CASE fence = "none" -> json
    [] fence = "plain" -> Fence \o <<"\n">> \o json \o <<"\n">> \o Fence
    [] fence = "json" -> Fence \o Chars("json\n") \o json \o <<"\n">> \o Fence

\* The text of an answer.
AnswerText(answer) ==
  IF answer.style = "raw" THEN answer.text
  ELSE answer.before \o Presented(JsonText(answer.plan, answer.trailing), answer.fence)
         \o answer.after

\* ------------------------------------------------------------- the drafts

DraftFields ==
  {"name", "description", "numberOfPeople", "location", "goal", "selectedDates",
   "startTime", "endTime", "isRecurring", "recurringFrequency", "activities", "aiQuestions"}

DateList(n) == [i \in 1..n |-> "2025-06-0" \o ToString(i)]

ActivityList(n) ==
  [i \in 1..n |-> IF i = 1 THEN [name |-> "Toast", description |-> "by the host"]
                  ELSE IF i = 2 THEN [name |-> "Dance"]
                  ELSE [name |-> "Game " \o ToString(i), description |-> ""]]

QuestionList(n) == [i \in 1..n |-> [question |-> "Question " \o ToString(i) \o "?"]]

\* The values a field of a draft takes when it is present.
FieldValues ==
  [f \in DraftFields |->
     CASE f \in {"name", "description", "location", "goal"} -> {"", "Gala", "Not specified"}
       [] f = "numberOfPeople" -> {0, 12}
       [] f \in {"startTime", "endTime"} -> {"", "18:00", "Not specified"}
       [] f = "selectedDates" -> {DateList(n) : n \in 0..MaxListLen} \cup {<<"Not specified">>}
       [] f = "isRecurring" -> BOOLEAN
       [] f = "recurringFrequency" -> {"weekly"}
       [] f = "activities" ->
            {ActivityList(n) : n \in 0..MaxListLen} \cup {<<[name |-> "Not specified"]>>}
       [] f = "aiQuestions" ->
            {QuestionList(n) : n \in 0..MaxListLen} \cup {<<[question |-> "Not specified"]>>}]

\* A draft with every field filled in, and the draft with none.
FullDraft ==
  [name |-> "Gala", description |-> "Dinner", numberOfPeople |-> 12, location |-> "Hall",
   goal |-> "Fundraising", selectedDates |-> DateList(1), startTime |-> "18:00",
   endTime |-> "22:00", isRecurring |-> TRUE, recurringFrequency |-> "weekly",
   activities |-> ActivityList(1), aiQuestions |-> QuestionList(1)]

EmptyDraft == [f \in {} |-> ""]

\* The draft without a field, and the drafts that differ from it in that field.
Without(draft, field) == [f \in DOMAIN draft \ {field} |-> draft[f]]

Varied(draft, field) ==
  {Without(draft, field)}
    \cup {(field :> v) @@ Without(draft, field) : v \in FieldValues[field]}

\* The drafts within two fields of the full draft or of the empty one.
Drafts ==
  LET once == UNION {Varied(d, f) : d \in {FullDraft, EmptyDraft}, f \in DraftFields}
  IN UNION {Varied(d, f) : d \in once, f \in DraftFields}

\* -------------------------------------------------------------- the state

VARIABLES
  apiKey,            \* OPENAI_API_KEY is configured
  openai,            \* OpenAIService.openai: the client has been created
  lastQuery,         \* OpenAIService.lastQuery
  eventData,         \* the draft of the running call
  pc,                \* where the running call stands
  answer,            \* what the endpoint answered (the environment's record of it)
  generatedContent,  \* response.choices[0]?.message?.content, <<>> when there is none
  cleanedContent,    \* the working text of the recovery
  eventPlan,         \* how generateEventPlan has ended
  formattedPlan,     \* how generateEventPlanString has ended
  steps,             \* the recovery steps taken, in order
  request,           \* the messages of the last plan-generation request, <<>> before it
  sent,              \* the number of completion requests issued
  enhancedPlan,      \* how enhanceExistingPlan has ended
  suggestions,       \* how generateActivitySuggestions has ended
  store,             \* the list of events under EVENTS_KEY in AsyncStorage
  op,                \* the running operation of EventService or of a screen
  result,            \* how that operation has ended
  now,               \* Date.now()
  tasks,             \* the calls of EventService under way or ended, in the order they began
  isGeneratingAI,    \* EventPlanningScreen: a submission or a regeneration is under way
  aiPlanGenerated,   \* EventPlanningScreen: the plan it shows
  generatingAI,      \* HistoryScreen: the id of the event whose plan is being generated
  notification       \* the message of the notification last shown

\* What the completion endpoint has been asked.
calls == <<request, sent>>

\* The state of EventService and of the two other methods of OpenAIService.
service == <<enhancedPlan, suggestions, store, op, result, now>>

\* The calls under way and the state of the two screens.
screens == <<tasks, isGeneratingAI, aiPlanGenerated, generatingAI, notification>>

vars ==
  <<apiKey, openai, lastQuery, eventData, pc, answer, generatedContent, cleanedContent,
    eventPlan, formattedPlan, steps, request, sent, enhancedPlan, suggestions, store, op,
    result, now, tasks, isGeneratingAI, aiPlanGenerated, generatingAI, notification>>

\* null, where a string may stand
Null == "null"

\* useState<string | null>(null) of aiPlanGenerated
NoPlanShown == [kind |-> "null"]

Pending == [kind |-> "pending"]

Returned(val) == [kind |-> "returned", val |-> val]

Thrown(message) == [kind |-> "thrown", message |-> message]

NoAnswer == [style |-> "none"]

\* No operation of EventService has run yet.
NoOperation ==
  [name |-> "none", stage |-> "ended", id |-> "", eventData |-> EmptyDraft, time |-> 0,
   readFailed |-> FALSE, writeFailed |-> FALSE, before |-> <<>>]

\* An event an earlier version of the application stored: its questions are one
\* string, and the optional fields it never asked for are missing.
LegacyEvent ==
  [id |-> "0legacy", name |-> "Reunion", description |-> "Class of 2010",
   aiQuestions |-> LegacyQuestions("What food?"), createdAt |-> 0, updatedAt |-> 0]

\* What the device holds under EVENTS_KEY when the application starts.
StoredAtStart == {<<>>, <<LegacyEvent>>}

\* The state when the application starts, the device holding one of the lists stored.
Started(stored) ==
  /\ apiKey \in BOOLEAN
  /\ openai = FALSE
  /\ lastQuery = ""
  /\ eventData = EmptyDraft
  /\ pc = "idle"
  /\ answer = NoAnswer
  /\ generatedContent = <<>>
  /\ cleanedContent = <<>>
  /\ eventPlan = Pending
  /\ formattedPlan = Pending
  /\ steps = <<>>
  /\ request = <<>>
  /\ sent = 0
  /\ enhancedPlan = Pending
  /\ suggestions = Pending
  /\ store \in stored
  /\ op = NoOperation
  /\ result = Pending
  /\ now = 1
  /\ tasks = <<>>
  /\ isGeneratingAI = FALSE
  /\ aiPlanGenerated = NoPlanShown
  /\ generatingAI = Null
  /\ notification = ""

\* A first start: nothing is stored yet.
Init == Started({<<>>})

\* generateEventPlan ends by throwing: the outer catch wraps the message, and
\* generateEventPlanString, which awaits it, rejects with the same error.
Throw(message) ==
  /\ eventPlan' = Thrown("Failed to generate event plan: " \o message)
  /\ formattedPlan' = Thrown("Failed to generate event plan: " \o message)
  /\ pc' = "failed"

\* generateEventPlan returns val to generateEventPlanString.
Return(val) ==
  /\ eventPlan' = Returned(val)
  /\ pc' = "format"
  /\ UNCHANGED formattedPlan

NBHYPHEN == "NBHYPHEN"   \* U+2011, non-breaking hyphen
EMDASH == "EMDASH"       \* U+2014, em dash

\* The content of the system message of a plan-generation request.
SystemBlock ==
  JoinTexts(<<
    Chars("You are an expert event planner and host-coach."),
    Chars("You produce highly structured, practical, and engaging plans."),
    Chars("Always respect any user") \o <<NBHYPHEN>>
      \o Chars("provided details and only build on them") \o <<EMDASH>>
      \o Chars("never overwrite."),
    Chars("If a field is missing or marked \"Not specified,\" offer a thoughtful recommendation aligned with the event's theme."),
    Chars("If the user has provided specific questions in 'Questions for AI', address these questions throughout your plan and include specific answers in the recommendations section.")
  >>, <<"\n">>)

\* The content of the last message of a plan-generation request.
OutputRequirements ==
  JoinTexts(<<
    Chars("### Output Requirements"),
    Chars("Please return a JSON object matching this schema:"),
    Fence \o Chars("json"),
    Chars("{"),
    Chars("  \"overview\": \"string\","),
    Chars("  \"timeline\": ["),
    Chars("    {\"time\": \"H:MM AM/PM\", \"activity\": \"string\"}"),
    Chars("  ],"),
    Chars("  \"schedule\": ["),
    Chars("    {\"activity\": \"string\", \"details\": \"string\", \"location\": \"string\"}"),
    Chars("  ],"),
    Chars("  \"logistics\": [\"string\"],"),
    Chars("  \"materials\": [\"string\"],"),
    Chars("  \"recommendations\": [\"string\"],"),
    Chars("  \"tips\": [\"string\"]"),
    Chars("}"),
    Fence,
    Chars("IMPORTANT: Use 12-hour time format with AM/PM for all times (e.g., '9:00 AM', '2:30 PM', '11:45 PM')."),
    Chars("FORMAT: When converted to text, the Activity Schedule section should be formatted as a bulleted list instead of subheaders."),
    Chars("Make the plan practical, engaging, and tailored to the provided details.")
  >>, <<"\n">>)

\* The system message repeats the user-input block.
MessagesRepeatingInput(eventInput) ==
  << [role |-> "system",
      content |-> SystemBlock \o <<"\n">> \o Chars(eventInput)],
     [role |-> "user", content |-> JoinStrings(<<"### Event Input", eventInput>>, "\n")],
     [role |-> "user", content |-> OutputRequirements] >>

\* messages: [...] of the plan-generation request.  The user-input block is a
\* string, the two fixed blocks are texts (they hold characters a string cannot).
Messages(eventInput) ==
  << [role |-> "system", content |-> SystemBlock],
     [role |-> "user", content |-> JoinStrings(<<"### Event Input", eventInput>>, "\n")],
     [role |-> "user", content |-> OutputRequirements] >>

\* initializeOpenAI creates a client although the key is missing.
initializeOpenAINeverThrows == FALSE

\* initializeOpenAI throws: no client is cached and OPENAI_API_KEY is not set.
initializeOpenAIThrows == ~openai /\ ~apiKey

ConfigurationMessage ==
  "OpenAI API key is not configured. Please add OPENAI_API_KEY to your .env file."

\* The request leaves without the debug buffer having been written.
CreateCompletionUnrecorded(eventInput) ==
  /\ request' = Messages(eventInput)
  /\ sent' = sent + 1
  /\ pc' = "awaiting"
  /\ UNCHANGED <<lastQuery, eventPlan, formattedPlan>>

\* this.lastQuery = eventInput; await openai.chat.completions.create({...})
CreateCompletion(eventInput) ==
  /\ lastQuery' = eventInput
  /\ request' = Messages(eventInput)
  /\ sent' = sent + 1
  /\ pc' = "awaiting"
  /\ UNCHANGED <<eventPlan, formattedPlan>>

\* generateEventPlanString(eventData) calls generateEventPlan(eventData), which
\* runs up to its await: the client, the user-input block, the debug buffer, the
\* request.
GenerateEventPlan(drafts) ==
  \E draft \in drafts :
    /\ pc = "idle"
    /\ eventData' = draft
    /\ IF initializeOpenAIThrows
         THEN /\ Throw(ConfigurationMessage)
              /\ UNCHANGED <<openai, lastQuery, calls>>
         ELSE IF buildEventInputThrows(draft)
           THEN /\ openai' = TRUE
                /\ Throw("eventData.aiQuestions.map is not a function")
                /\ UNCHANGED <<lastQuery, calls>>
           ELSE /\ openai' = TRUE
                /\ CreateCompletion(buildEventInput(draft))
    /\ UNCHANGED <<apiKey, screens, answer, generatedContent, cleanedContent, steps, service>>

\* The completion call rejects.
CompletionFails ==
  /\ pc = "awaiting"
  /\ Throw("Connection error.")
  /\ UNCHANGED <<apiKey, screens, openai, lastQuery, eventData, answer, generatedContent,
                 cleanedContent, steps>>
  /\ UNCHANGED <<calls, service>>

\* The completion call resolves without content, and the fallback is returned.
CompletionEmptyFallsBack ==
  /\ pc = "awaiting"
  /\ \E a \in {[style |-> "null"], [style |-> "raw", text |-> <<>>]} : answer' = a
  /\ generatedContent' = <<>>
  /\ Return(FallbackPlan)
  /\ UNCHANGED <<apiKey, screens, openai, lastQuery, eventData, cleanedContent, steps>>
  /\ UNCHANGED <<calls, service>>

\* The completion call resolves without content, and `if (!generatedContent)` throws.
CompletionEmpty ==
  /\ pc = "awaiting"
  /\ \E a \in {[style |-> "null"], [style |-> "raw", text |-> <<>>]} : answer' = a
  /\ generatedContent' = <<>>
  /\ Throw("Failed to generate event plan")
  /\ UNCHANGED <<apiKey, screens, openai, lastQuery, eventData, cleanedContent, steps>>
  /\ UNCHANGED <<calls, service>>

\* A text of white space counts as no text.
CompletionResolvesInked(answers) ==
  \E a \in answers :
    /\ pc = "awaiting"
    /\ AnswerText(a) # <<>>
    /\ answer' = a
    /\ generatedContent' = AnswerText(a)
    /\ IF SkipRegexSpace(AnswerText(a), 1) > Len(AnswerText(a))
         THEN Throw("Failed to generate event plan")
         ELSE pc' = "direct" /\ UNCHANGED <<eventPlan, formattedPlan>>
    /\ UNCHANGED <<apiKey, screens, openai, lastQuery, eventData, cleanedContent, steps>>
    /\ UNCHANGED <<calls, service>>

\* The completion call resolves with a non-empty text.
CompletionResolves(answers) ==
  \E a \in answers :
    /\ pc = "awaiting"
    /\ AnswerText(a) # <<>>
    /\ answer' = a
    /\ generatedContent' = AnswerText(a)
    /\ pc' = "direct"
    /\ UNCHANGED <<apiKey, screens, openai, lastQuery, eventData, cleanedContent, eventPlan,
                   formattedPlan, steps>>
    /\ UNCHANGED <<calls, service>>

\* try { return JSON.parse(generatedContent) } catch { cleanedContent = generatedContent ... }
\* The direct parse throws and the error leaves generateEventPlan.
DirectParsedRethrows(parsed) ==
  IF parsed.ok
    THEN Return(parsed.val) /\ UNCHANGED cleanedContent
    ELSE Throw("Unexpected token") /\ UNCHANGED cleanedContent

\* The response is cleaned up before any parse.
DirectParsedSanitizes(parsed) ==
  /\ cleanedContent' = generatedContent
  /\ pc' = "fenced"
  /\ UNCHANGED <<eventPlan, formattedPlan>>

DirectParsed(parsed) ==
  IF parsed.ok
    THEN Return(parsed.val) /\ UNCHANGED cleanedContent
    ELSE /\ cleanedContent' = generatedContent
         /\ pc' = "fenced"
         /\ UNCHANGED <<eventPlan, formattedPlan>>

DirectParse ==
  /\ pc = "direct"
  /\ steps' = Append(steps, "direct")
  /\ DirectParsed(JSONParse(generatedContent))
  /\ UNCHANGED <<apiKey, screens, openai, lastQuery, eventData, answer, generatedContent>>
  /\ UNCHANGED <<calls, service>>

\* Strategy 1 goes straight to the cleanup.
FencedExtractionSkipsBoundary ==
  /\ pc = "fenced"
  /\ steps' = Append(steps, "fenced")
  /\ cleanedContent' = FencedExtract(cleanedContent)
  /\ pc' = "cleanup"
  /\ UNCHANGED <<apiKey, screens, openai, lastQuery, eventData, answer, generatedContent, eventPlan,
                 formattedPlan>>
  /\ UNCHANGED <<calls, service>>

\* Strategy 1
FencedExtraction ==
  /\ pc = "fenced"
  /\ steps' = Append(steps, "fenced")
  /\ cleanedContent' = FencedExtract(cleanedContent)
  /\ pc' = "boundary"
  /\ UNCHANGED <<apiKey, screens, openai, lastQuery, eventData, answer, generatedContent, eventPlan,
                 formattedPlan>>
  /\ UNCHANGED <<calls, service>>

\* Strategy 2
BoundaryExtraction ==
  /\ pc = "boundary"
  /\ steps' = Append(steps, "boundary")
  /\ cleanedContent' = BoundaryExtract(cleanedContent)
  /\ pc' = "cleanup"
  /\ UNCHANGED <<apiKey, screens, openai, lastQuery, eventData, answer, generatedContent, eventPlan,
                 formattedPlan>>
  /\ UNCHANGED <<calls, service>>

\* Strategy 3
Cleanup ==
  /\ pc = "cleanup"
  /\ steps' = Append(steps, "cleanup")
  /\ cleanedContent' = Sanitize(cleanedContent)
  /\ pc' = "second"
  /\ UNCHANGED <<apiKey, screens, openai, lastQuery, eventData, answer, generatedContent, eventPlan,
                 formattedPlan>>
  /\ UNCHANGED <<calls, service>>

\* try { return JSON.parse(cleanedContent) } catch { ... }
SecondParsed(parsed) ==
  IF parsed.ok
    THEN Return(parsed.val)
    ELSE pc' = "fallback" /\ UNCHANGED <<eventPlan, formattedPlan>>

SecondParse ==
  /\ pc = "second"
  /\ steps' = Append(steps, "second")
  /\ SecondParsed(JSONParse(cleanedContent))
  /\ UNCHANGED <<apiKey, screens, openai, lastQuery, eventData, answer, generatedContent,
                 cleanedContent>>
  /\ UNCHANGED <<calls, service>>

\* Last resort: the fallback structured response.
Fallback ==
  /\ pc = "fallback"
  /\ steps' = Append(steps, "fallback")
  /\ Return(FallbackPlan)
  /\ UNCHANGED <<apiKey, screens, openai, lastQuery, eventData, answer, generatedContent,
                 cleanedContent>>
  /\ UNCHANGED <<calls, service>>

\* The rendering is headed by the name of the event it was asked for.
FormattingUnderName(formatted) ==
  IF formatted.throws
    THEN formattedPlan' = Thrown("TypeError") /\ pc' = "failed"
    ELSE formattedPlan' = Returned(Chars(eventData.name) \o formatted.text) /\ pc' = "done"

\* generateEventPlanString formats the plan generateEventPlan returned; a
\* TypeError raised while formatting rejects generateEventPlanString.
Formatting(formatted) ==
  IF formatted.throws
    THEN formattedPlan' = Thrown("TypeError") /\ pc' = "failed"
    ELSE formattedPlan' = Returned(formatted.text) /\ pc' = "done"

FormatPlanString ==
  /\ pc = "format"
  /\ Formatting(FormatPlan(eventPlan.val))
  /\ UNCHANGED <<apiKey, screens, openai, lastQuery, eventData, answer, generatedContent,
                 cleanedContent, eventPlan, steps>>
  /\ UNCHANGED <<calls, service>>

Recovery ==
  \/ DirectParse
  \/ FencedExtraction
  \/ BoundaryExtraction
  \/ Cleanup
  \/ SecondParse
  \/ Fallback

\* Every answer of the endpoint, for one draft.
Next ==
  \/ GenerateEventPlan({FullDraft})
  \/ CompletionFails
  \/ CompletionEmpty
  \/ CompletionResolves(Answers)
  \/ Recovery
  \/ FormatPlanString

Spec == Init /\ [][Next]_vars

\* Every draft, for a few answers of the endpoint.
FewAnswers ==
  { [style |-> "plan", plan |-> PlanOf(Chars("x"), TRUE), trailing |-> <<>>, fence |-> "json",
     before |-> <<>>, after |-> <<>>],
    [style |-> "raw", text |-> Chars("not json at all")] }

NextPrompt ==
  \/ GenerateEventPlan(Drafts)
  \/ CompletionFails
  \/ CompletionEmpty
  \/ CompletionResolves(FewAnswers)
  \/ Recovery
  \/ FormatPlanString

SpecPrompt == Init /\ [][NextPrompt]_vars

\* ------------------------------------------------------------ EventService

\* The number of operations a run starts.
MaxOps == 2

\* The drafts the screens submit: every field filled in, or the two required ones.
ServiceDrafts == {FullDraft, [name |-> "Picnic", description |-> "Lunch in the park"]}

\* Math.random().toString(36).substr(2, 9)
RandomSuffixes == {"k3x9q2m1z"}

\* What the endpoint answers a request for an enhanced plan with.
EnhancedTexts ==
  { Chars("## Better plan\n- more music"),
    Fence \o Chars("json\n{\"overview\":\"x\",}\n") \o Fence,
    Chars(" \n") }

\* What the endpoint answers a request for activity suggestions with.
SuggestionTexts ==
  { Chars("Quiz\nDance"),
    Chars(" Quiz night \r\n\n\t\n- Dance  "),
    Chars("\n \n") }

\* The characters of text at positions lo..hi, each as JSON.stringify writes it
\* inside a string.
RECURSIVE EscapedSpan(_, _, _)
EscapedSpan(text, lo, hi) ==
  IF lo > hi THEN <<>>
  ELSE IF lo = hi THEN EscapedText(<<text[lo]>>)
  ELSE EscapedSpan(text, lo, (lo + hi) \div 2) \o EscapedSpan(text, (lo + hi) \div 2 + 1, hi)

\* JSON.stringify(text)
Stringified(text) == <<"\"">> \o EscapedSpan(text, 1, Len(text)) \o <<"\"">>

\* Whether the character at position i of a JSON string follows the backslash
\* that escapes it.
RECURSIVE IsEscaped(_, _)
IsEscaped(json, i) == i > 1 /\ json[i - 1] = "\\" /\ ~IsEscaped(json, i - 1)

\* What JSON.parse reads of the characters at positions lo..hi of a JSON string.
RECURSIVE UnescapedSpan(_, _, _)
UnescapedSpan(json, lo, hi) ==
  IF lo > hi THEN <<>>
  ELSE IF lo = hi
    THEN IF IsEscaped(json, lo) THEN <<EscapeChar(json[lo])>>
         ELSE IF json[lo] = "\\" THEN <<>>
         ELSE <<json[lo]>>
  ELSE UnescapedSpan(json, lo, (lo + hi) \div 2)
         \o UnescapedSpan(json, (lo + hi) \div 2 + 1, hi)

\* JSON.parse of the JSON string JSON.stringify wrote, between its quotes.
Reparsed(json) == UnescapedSpan(json, 2, Len(json) - 1)

\* An event as it comes back from the stored JSON text.  The plan is a text and
\* goes through its JSON string; the other fields are held by the model in the
\* form JSON text gives them back in (an undefined field is one the event does
\* not have, a date is its time value).
StoredEvent(event) ==
  IF "aiGeneratedPlan" \in DOMAIN event
    THEN [event EXCEPT !["aiGeneratedPlan"] = Reparsed(Stringified(@))]
    ELSE event

\* JSON.parse of JSON.stringify(events)
StoredEvents(events) == [i \in 1..Len(events) |-> StoredEvent(events[i])]

\* getAllEvents(): the stored list, or [] when reading it fails (the catch
\* returns []).
getAllEvents(readFails) == IF readFails THEN <<>> ELSE store

\* events.findIndex((event) => event.id === eventId), 1-based, 0 when there is none
IndexOfEvent(events, eventId) ==
  MinOrZero({i \in 1..Len(events) : events[i].id = eventId})

\* The ids an operation is called with: those of the stored events and one of no event.
Targets == {store[i].id : i \in 1..Len(store)} \cup {"404"}

\* The event is made anew from the updates, under its id and creation date.
MergedAnew(event, updates, time) ==
  ("updatedAt" :> time) @@ updates @@ ("id" :> event.id) @@ ("createdAt" :> event.createdAt)

\* { ...events[eventIndex], ...updates, updatedAt: new Date() }
Merged(event, updates, time) == ("updatedAt" :> time) @@ updates @@ event

\* { id, ...eventData, aiGeneratedPlan, createdAt, updatedAt } of saveEvent
NewEvent(operation, aiPlan) ==
  ("createdAt" :> operation.time) @@ ("updatedAt" :> operation.time)
    @@ (IF aiPlan.kind = "returned" THEN ("aiGeneratedPlan" :> aiPlan.val) ELSE EmptyDraft)
    @@ operation.eventData @@ ("id" :> operation.id)

\* The CreateEventData generateAIPlanForEvent rebuilds from a stored event.
DraftOf(event) == [f \in DOMAIN event \cap DraftFields |-> event[f]]

ReturnedEvent(event) == [kind |-> "returned", events |-> <<event>>, texts |-> <<>>]

\* null, or nothing (deleteEvent)
ReturnedNull == [kind |-> "returned", events |-> <<>>, texts |-> <<>>]

ReturnedTexts(texts) == [kind |-> "returned", events |-> <<>>, texts |-> texts]

\* text.split(sep), for a one-character sep
RECURSIVE SplitAt(_, _, _)
Split(text, sep) == SplitAt(text, sep, MinOrZero({i \in 1..Len(text) : text[i] = sep}))

SplitAt(text, sep, first) ==
  IF first = 0 THEN <<text>>
  ELSE <<SubSeq(text, 1, first - 1)>> \o Split(SubSeq(text, first + 1, Len(text)), sep)

\* line.trim()
Trim(line) == SubSeq(line, SkipRegexSpace(line, 1), SkipRegexSpaceBack(line, Len(line)))

\* The lines are returned as they are.
UntrimmedLines(text) == Split(text, "\n")

\* suggestions.split("\n").filter((line) => line.trim().length > 0).map((line) => line.trim())
SuggestionLines(text) ==
  [i \in 1..Len(SelectSeq(Split(text, "\n"), LAMBDA line : Len(Trim(line)) > 0)) |->
     Trim(SelectSeq(Split(text, "\n"), LAMBDA line : Len(Trim(line)) > 0)[i])]

generation == <<answer, generatedContent, cleanedContent, eventPlan, formattedPlan, steps>>

\* An operation starts while none is running; the completion side starts afresh.
Starts(operation, position) ==
  /\ op.stage = "ended"
  /\ now <= MaxOps
  /\ op' = operation
  /\ now' = now + 1
  /\ pc' = position
  /\ answer' = NoAnswer
  /\ generatedContent' = <<>>
  /\ cleanedContent' = <<>>
  /\ eventPlan' = Pending
  /\ formattedPlan' = Pending
  /\ steps' = <<>>
  /\ UNCHANGED <<apiKey, screens, lastQuery, eventData, request>>

Operation(name, stage, id, draft) ==
  [name |-> name, stage |-> stage, id |-> id, eventData |-> draft, time |-> now,
   readFailed |-> FALSE, writeFailed |-> FALSE, before |-> store]

\* The running operation ends; readFails and writeFails tell whether a read or
\* a write of the store it made has failed.
Ends(readFails, writeFails) ==
  op' = [op EXCEPT !.stage = "ended", !.readFailed = @ \/ readFails,
                   !.writeFailed = @ \/ writeFails]

\* The completion side stays as it is.
CompletionSideUnchanged ==
  UNCHANGED <<apiKey, screens, openai, lastQuery, eventData, pc, generation, calls, enhancedPlan,
              suggestions, now>>

\* saveEvent(eventData, generateAIPlan) up to its first await: the new event
\* gets its id and its dates.
SaveEvent ==
  \E draft \in ServiceDrafts, generateAIPlan \in BOOLEAN, suffix \in RandomSuffixes :
    /\ Starts(Operation("saveEvent", IF generateAIPlan THEN "generate" ELSE "store",
                        ToString(now) \o suffix, draft), "idle")
    /\ result' = Pending
    /\ enhancedPlan' = Pending
    /\ suggestions' = Pending
    /\ UNCHANGED <<openai, sent, store>>

\* The plan is stored although generating it threw.
NewEventOrThrow(aiPlan, existingEvents, writeFails) ==
  IF writeFails \/ aiPlan.kind = "thrown"
    THEN result' = Thrown("Failed to save event") /\ UNCHANGED store
    ELSE /\ store' = StoredEvents(<<NewEvent(op, aiPlan)>> \o existingEvents)
         /\ result' = ReturnedEvent(NewEvent(op, aiPlan))

\* [newEvent, ...existingEvents] is written and newEvent returned; a write that
\* fails is caught and "Failed to save event" thrown.
NewEventStored(aiPlan, existingEvents, writeFails) ==
  IF writeFails
    THEN result' = Thrown("Failed to save event") /\ UNCHANGED store
    ELSE /\ store' = StoredEvents(<<NewEvent(op, aiPlan)>> \o existingEvents)
         /\ result' = ReturnedEvent(NewEvent(op, aiPlan))

\* saveEvent after the generation, if any: whether generateEventPlanString has
\* returned or thrown (the inner catch only warns), the stored list is read and
\* written.
SaveEventStores ==
  \E readFails \in BOOLEAN, writeFails \in BOOLEAN :
    /\ op.name = "saveEvent"
    /\ \/ op.stage = "store"
       \/ op.stage = "generate" /\ pc \in {"done", "failed"}
    /\ NewEventStored(formattedPlan, getAllEvents(readFails), writeFails)
    /\ Ends(readFails, writeFails)
    /\ CompletionSideUnchanged

\* updateEvent(eventId, updates) on the list events it has read; failure is the
\* message of the error that leaves the calling operation when the write fails.
updateEvent(eventId, updates, events, writeFails, failure) ==
  IF IndexOfEvent(events, eventId) = 0
    THEN result' = ReturnedNull /\ UNCHANGED store
    ELSE IF writeFails
      THEN result' = Thrown(failure) /\ UNCHANGED store
      ELSE /\ store' = StoredEvents([events EXCEPT ![IndexOfEvent(events, eventId)] =
                                       Merged(@, updates, now)])
           /\ result' = ReturnedEvent(Merged(events[IndexOfEvent(events, eventId)],
                                             updates, now))

\* EventService.updateEvent, as the event-planning screen calls it on an edit.
UpdateEvent ==
  \E eventId \in Targets, updates \in ServiceDrafts,
     readFails \in BOOLEAN, writeFails \in BOOLEAN :
    /\ Starts([Operation("updateEvent", "ended", eventId, updates)
                 EXCEPT !.readFailed = readFails,
                        !.writeFailed =
                          writeFails /\ IndexOfEvent(getAllEvents(readFails), eventId) # 0],
              "idle")
    /\ updateEvent(eventId, updates, getAllEvents(readFails), writeFails,
                   "Failed to update event")
    /\ enhancedPlan' = Pending
    /\ suggestions' = Pending
    /\ UNCHANGED <<openai, sent>>

\* EventService.deleteEvent
DeleteEvent ==
  \E eventId \in Targets, readFails \in BOOLEAN, writeFails \in BOOLEAN :
    /\ Starts([Operation("deleteEvent", "ended", eventId, EmptyDraft)
                 EXCEPT !.readFailed = readFails, !.writeFailed = writeFails],
              "idle")
    /\ IF writeFails
         THEN result' = Thrown("Failed to delete event") /\ UNCHANGED store
         ELSE /\ store' = StoredEvents(SelectSeq(getAllEvents(readFails),
                                                 LAMBDA event : event.id # eventId))
              /\ result' = ReturnedNull
    /\ enhancedPlan' = Pending
    /\ suggestions' = Pending
    /\ UNCHANGED <<openai, sent>>

\* generateAIPlanForEvent(eventId) up to its call of generateEventPlanString:
\* the event is looked up and its draft rebuilt, field by field.
GenerateAIPlanForEvent ==
  \E eventId \in Targets, readFails \in BOOLEAN :
    /\ IF IndexOfEvent(getAllEvents(readFails), eventId) = 0
         THEN /\ Starts([Operation("generateAIPlanForEvent", "ended", eventId, EmptyDraft)
                           EXCEPT !.readFailed = readFails], "idle")
              /\ result' = ReturnedNull
         ELSE /\ Starts([Operation("generateAIPlanForEvent", "generate", eventId,
                                   DraftOf(store[IndexOfEvent(store, eventId)]))
                           EXCEPT !.readFailed = readFails], "idle")
              /\ result' = Pending
    /\ enhancedPlan' = Pending
    /\ suggestions' = Pending
    /\ UNCHANGED <<openai, sent, store>>

\* A failed generation takes the plan of the event away.
GenerateAIPlanForEventClears ==
  \E readFails \in BOOLEAN, writeFails \in BOOLEAN :
    /\ op.name = "generateAIPlanForEvent"
    /\ op.stage = "generate"
    /\ pc \in {"done", "failed"}
    /\ updateEvent(op.id,
                   "aiGeneratedPlan" :> (IF formattedPlan.kind = "thrown" THEN <<>>
                                         ELSE formattedPlan.val),
                   getAllEvents(readFails), writeFails, "Failed to generate AI plan")
    /\ Ends(readFails, writeFails /\ IndexOfEvent(getAllEvents(readFails), op.id) # 0)
    /\ CompletionSideUnchanged

\* generateAIPlanForEvent after generateEventPlanString: an error is rethrown
\* as the generic failure, a plan is stored with updateEvent.
GenerateAIPlanForEventUpdates ==
  \E readFails \in BOOLEAN, writeFails \in BOOLEAN :
    /\ op.name = "generateAIPlanForEvent"
    /\ op.stage = "generate"
    /\ pc \in {"done", "failed"}
    /\ IF formattedPlan.kind = "thrown"
         THEN /\ result' = Thrown("Failed to generate AI plan")
              /\ Ends(FALSE, FALSE)
              /\ UNCHANGED store
         ELSE /\ updateEvent(op.id, "aiGeneratedPlan" :> formattedPlan.val,
                             getAllEvents(readFails), writeFails, "Failed to generate AI plan")
              /\ Ends(readFails,
                      writeFails /\ IndexOfEvent(getAllEvents(readFails), op.id) # 0)
    /\ CompletionSideUnchanged

\* The screen calls generateEventPlanString itself to regenerate a plan.
HandleRegenerateAI ==
  \E draft \in ServiceDrafts :
    /\ Starts(Operation("generateEventPlanString", "generate", "", draft), "idle")
    /\ result' = Pending
    /\ enhancedPlan' = Pending
    /\ suggestions' = Pending
    /\ UNCHANGED <<openai, sent, store>>

HandleRegenerateAIEnds ==
  /\ op.name = "generateEventPlanString"
  /\ op.stage = "generate"
  /\ pc \in {"done", "failed"}
  /\ result' = formattedPlan
  /\ Ends(FALSE, FALSE)
  /\ UNCHANGED store
  /\ CompletionSideUnchanged

\* The operation under way calls generateEventPlanString on its draft.
GenerateForOperation ==
  /\ op.stage = "generate"
  /\ GenerateEventPlan({op.eventData})

\* The catch of enhanceExistingPlan wraps the message of the error.
EnhanceThrow(message) ==
  /\ enhancedPlan' = Thrown("Failed to enhance event plan: " \o message)
  /\ pc' = "failed"

\* enhanceEventPlan(eventId, userRequest) up to the await of the completion:
\* the event is looked up, and enhanceExistingPlan runs up to its request.
EnhanceEventPlan ==
  \E eventId \in Targets, readFails \in BOOLEAN :
    /\ IF IndexOfEvent(getAllEvents(readFails), eventId) = 0
         THEN /\ Starts([Operation("enhanceEventPlan", "ended", eventId, EmptyDraft)
                           EXCEPT !.readFailed = readFails], "idle")
              /\ result' = ReturnedNull
              /\ enhancedPlan' = Pending
              /\ UNCHANGED <<openai, sent>>
         ELSE /\ result' = Pending
              /\ IF initializeOpenAIThrows
                   THEN /\ Starts([Operation("enhanceEventPlan", "enhance", eventId, EmptyDraft)
                                     EXCEPT !.readFailed = readFails], "failed")
                        /\ enhancedPlan' =
                             Thrown("Failed to enhance event plan: " \o ConfigurationMessage)
                        /\ UNCHANGED <<openai, sent>>
                   ELSE /\ Starts([Operation("enhanceEventPlan", "enhance", eventId, EmptyDraft)
                                     EXCEPT !.readFailed = readFails], "enhancing")
                        /\ openai' = TRUE
                        /\ sent' = sent + 1
                        /\ enhancedPlan' = Pending
    /\ suggestions' = Pending
    /\ UNCHANGED store

EnhanceSideUnchanged ==
  UNCHANGED <<apiKey, screens, openai, lastQuery, eventData, generatedContent, cleanedContent,
              eventPlan, formattedPlan, steps, calls, suggestions, store, op, result, now>>

\* The completion call of enhanceExistingPlan rejects.
EnhanceFails ==
  /\ pc = "enhancing"
  /\ EnhanceThrow("Connection error.")
  /\ UNCHANGED answer
  /\ EnhanceSideUnchanged

\* It resolves without content, and `if (!enhancedPlan)` throws.
EnhanceEmpty ==
  /\ pc = "enhancing"
  /\ \E a \in {[style |-> "null"], [style |-> "raw", text |-> <<>>]} : answer' = a
  /\ EnhanceThrow("Failed to enhance event plan")
  /\ EnhanceSideUnchanged

\* The text is cleaned up before it is returned.
EnhanceReturnSanitized(text) ==
  /\ enhancedPlan' = Returned(Sanitize(text))
  /\ pc' = "done"

\* return enhancedPlan
EnhanceReturn(text) ==
  /\ enhancedPlan' = Returned(text)
  /\ pc' = "done"

\* It resolves with a non-empty text.
EnhanceResolves ==
  \E text \in EnhancedTexts :
    /\ pc = "enhancing"
    /\ answer' = [style |-> "raw", text |-> text]
    /\ EnhanceReturn(text)
    /\ EnhanceSideUnchanged

\* enhanceEventPlan after enhanceExistingPlan: an error is rethrown as the
\* generic failure, a plan is stored with updateEvent.
EnhanceEventPlanUpdates ==
  \E readFails \in BOOLEAN, writeFails \in BOOLEAN :
    /\ op.name = "enhanceEventPlan"
    /\ op.stage = "enhance"
    /\ pc \in {"done", "failed"}
    /\ IF enhancedPlan.kind = "thrown"
         THEN /\ result' = Thrown("Failed to enhance event plan")
              /\ Ends(FALSE, FALSE)
              /\ UNCHANGED store
         ELSE /\ updateEvent(op.id, "aiGeneratedPlan" :> enhancedPlan.val,
                             getAllEvents(readFails), writeFails, "Failed to enhance event plan")
              /\ Ends(readFails,
                      writeFails /\ IndexOfEvent(getAllEvents(readFails), op.id) # 0)
    /\ CompletionSideUnchanged

\* getActivitySuggestions(eventType, numberOfPeople, location) up to the await
\* of the completion; initializeOpenAI throws inside the try of
\* generateActivitySuggestions, whose catch returns [].
GetActivitySuggestions ==
  /\ IF initializeOpenAIThrows
       THEN /\ Starts(Operation("getActivitySuggestions", "suggest", "", EmptyDraft), "done")
            /\ suggestions' = Returned(<<>>)
            /\ UNCHANGED <<openai, sent>>
       ELSE /\ Starts(Operation("getActivitySuggestions", "suggest", "", EmptyDraft),
                      "suggesting")
            /\ openai' = TRUE
            /\ sent' = sent + 1
            /\ suggestions' = Pending
  /\ result' = Pending
  /\ enhancedPlan' = Pending
  /\ UNCHANGED store

SuggestionSideUnchanged ==
  UNCHANGED <<apiKey, screens, openai, lastQuery, eventData, generatedContent, cleanedContent,
              eventPlan, formattedPlan, steps, calls, enhancedPlan, store, op, result, now>>

\* The completion call of generateActivitySuggestions rejects: the catch returns [].
SuggestionsFail ==
  /\ pc = "suggesting"
  /\ suggestions' = Returned(<<>>)
  /\ pc' = "done"
  /\ UNCHANGED answer
  /\ SuggestionSideUnchanged

\* It resolves without content: `if (!suggestions) return []`.
SuggestionsEmpty ==
  /\ pc = "suggesting"
  /\ \E a \in {[style |-> "null"], [style |-> "raw", text |-> <<>>]} : answer' = a
  /\ suggestions' = Returned(<<>>)
  /\ pc' = "done"
  /\ SuggestionSideUnchanged

\* It resolves with a non-empty text.
SuggestionsResolve ==
  \E text \in SuggestionTexts :
    /\ pc = "suggesting"
    /\ answer' = [style |-> "raw", text |-> text]
    /\ suggestions' = Returned(SuggestionLines(text))
    /\ pc' = "done"
    /\ SuggestionSideUnchanged

\* getActivitySuggestions returns what generateActivitySuggestions returned.
GetActivitySuggestionsReturns ==
  /\ op.name = "getActivitySuggestions"
  /\ op.stage = "suggest"
  /\ pc = "done"
  /\ result' = ReturnedTexts(suggestions.val)
  /\ Ends(FALSE, FALSE)
  /\ UNCHANGED store
  /\ CompletionSideUnchanged

\* What the endpoint answers a plan-generation request of an operation with: a
\* plan, a text that is no JSON, a plan without its collections.
ServiceAnswers ==
  FewAnswers \cup {[style |-> "raw", text |-> Chars("{\"overview\":\"x\"}")]}

\* The operations of EventService and of the screens, one after the other.
NextService ==
  \/ SaveEvent
  \/ SaveEventStores
  \/ UpdateEvent
  \/ DeleteEvent
  \/ GenerateAIPlanForEvent
  \/ GenerateAIPlanForEventUpdates
  \/ HandleRegenerateAI
  \/ HandleRegenerateAIEnds
  \/ GenerateForOperation
  \/ CompletionFails
  \/ CompletionEmpty
  \/ CompletionResolves(ServiceAnswers)
  \/ Recovery
  \/ FormatPlanString
  \/ EnhanceEventPlan
  \/ EnhanceFails
  \/ EnhanceEmpty
  \/ EnhanceResolves
  \/ EnhanceEventPlanUpdates
  \/ GetActivitySuggestions
  \/ SuggestionsFail
  \/ SuggestionsEmpty
  \/ SuggestionsResolve
  \/ GetActivitySuggestionsReturns

SpecService == Started(StoredAtStart) /\ [][NextService]_vars

\* ------------------------------------------- calls under way, the screens

\* The number of calls of EventService a run starts.
MaxTasks == 2

\* A stored event that has a plan.
PlannedEvent ==
  [id |-> "0planned", name |-> "Picnic", description |-> "Lunch in the park",
   location |-> "Park", aiGeneratedPlan |-> Chars("## Event Overview\nx\n\n"),
   createdAt |-> 0, updatedAt |-> 0]

\* What the device holds when the screens are opened.
Shelf == <<PlannedEvent, LegacyEvent>>

\* How generateEventPlanString and enhanceExistingPlan end: with a text, or throwing.
Outcomes ==
  {Returned(Chars("## Event Overview\ny\n\n")),
   Thrown("Failed to generate event plan: Connection error.")}

\* The drafts the event-planning screen holds: one that passes its validation,
\* one whose name is blank.
ScreenDrafts ==
  {[name |-> "Brunch", description |-> "Sunday at ten"],
   [name |-> "  ", description |-> "Sunday at ten"]}

\* !eventData.name.trim() || !eventData.description.trim()
FailsValidation(draft) ==
  \/ Trim(Chars(draft.name)) = <<>>
  \/ Trim(Chars(draft.description)) = <<>>

\* The state of the core and of the one-at-a-time operations, which the calls
\* under way leave alone.
core ==
  <<apiKey, openai, lastQuery, eventData, pc, generation, calls, enhancedPlan, suggestions,
    op, result>>

\* The state of the two screens.
ui == <<isGeneratingAI, aiPlanGenerated, generatingAI, notification>>

\* The first await of each method of EventService: saveEvent awaits the plan
\* when one is asked for and the stored list otherwise; updateEvent and
\* deleteEvent await the stored list; generateAIPlanForEvent and
\* enhanceEventPlan await it to find their event.
FirstStage(name, generateAIPlan) ==
  CASE name = "saveEvent" -> IF generateAIPlan THEN "generate" ELSE "read"
    [] name \in {"updateEvent", "deleteEvent"} -> "read"
    [] name \in {"generateAIPlanForEvent", "enhanceEventPlan"} -> "find"
    [] name = "generateEventPlanString" -> "generate"

\* The error each method of EventService throws from its catch.
FailureOf(name) ==
  CASE name = "saveEvent" -> "Failed to save event"
    [] name = "updateEvent" -> "Failed to update event"
    [] name = "deleteEvent" -> "Failed to delete event"
    [] name = "generateAIPlanForEvent" -> "Failed to generate AI plan"
    [] name = "enhanceEventPlan" -> "Failed to enhance event plan"

\* A call of method name, begun by handler (none: by no screen), up to its
\* first await: id is its eventId (of saveEvent, the id it gives its new event),
\* eventData its draft or its updates, read the list getAllEvents returned to
\* it, events the list it is to write.
Task(handler, name, stage, id, draft) ==
  [handler |-> handler, name |-> name, stage |-> stage, id |-> id, eventData |-> draft,
   time |-> now, plan |-> Pending, read |-> <<>>, events |-> <<>>, result |-> Pending]

\* A call begins.
Begins(task) ==
  /\ Len(tasks) < MaxTasks
  /\ tasks' = Append(tasks, task)
  /\ now' = now + 1
  /\ UNCHANGED <<core, store>>

\* A call ends with res, and its lists are no more.
Ended(task, res) ==
  [task EXCEPT !.stage = "ended", !.result = res, !.read = <<>>, !.events = <<>>]

\* generateAIPlanForEvent and enhanceEventPlan, once getAllEvents has returned
\* events: `if (!event) return null`, or the completion side is called.
Found(task, events) ==
  IF IndexOfEvent(events, task.id) = 0
    THEN Ended(task, ReturnedNull)
    ELSE [task EXCEPT !.read = events, !.stage = "generate"]

\* generateAIPlanForEvent and enhanceEventPlan put the plan into the list they
\* found their event in, and write that list.
CompletedOnListFound(task, outcome) ==
  CASE task.name = "saveEvent" -> [task EXCEPT !.plan = outcome, !.stage = "read"]
    [] task.name = "generateEventPlanString" -> Ended(task, outcome)
    [] OTHER ->
         IF outcome.kind = "thrown"
           THEN Ended(task, Thrown(FailureOf(task.name)))
           ELSE [task EXCEPT !.plan = outcome,
                             !.eventData = "aiGeneratedPlan" :> outcome.val,
                             !.events = [task.read EXCEPT ![IndexOfEvent(task.read, task.id)] =
                                           Merged(@, "aiGeneratedPlan" :> outcome.val, now)],
                             !.stage = "write"]

\* The call once its completion side has ended with outcome: saveEvent keeps
\* the plan, if there is one, and goes on to read the list; the screen's own
\* generateEventPlanString ends as it did; generateAIPlanForEvent and
\* enhanceEventPlan rethrow an error as their failure and call updateEvent with
\* a plan.
Completed(task, outcome) ==
  CASE task.name = "saveEvent" -> [task EXCEPT !.plan = outcome, !.stage = "read"]
    [] task.name = "generateEventPlanString" -> Ended(task, outcome)
    [] OTHER ->
         IF outcome.kind = "thrown"
           THEN Ended(task, Thrown(FailureOf(task.name)))
           ELSE [task EXCEPT !.plan = outcome,
                             !.eventData = "aiGeneratedPlan" :> outcome.val,
                             !.stage = "read"]

\* The call once getAllEvents has returned events to saveEvent, to deleteEvent
\* or to updateEvent: the list to write is made of the list read.
Read(task, events) ==
  CASE task.name = "saveEvent" ->
         [task EXCEPT !.read = events,
                      !.events = <<NewEvent(task, task.plan)>> \o events,
                      !.stage = "write"]
    [] task.name = "deleteEvent" ->
         [task EXCEPT !.read = events,
                      !.events = SelectSeq(events, LAMBDA event : event.id # task.id),
                      !.stage = "write"]
    [] OTHER ->
         IF IndexOfEvent(events, task.id) = 0
           THEN Ended(task, ReturnedNull)
           ELSE [task EXCEPT !.read = events,
                             !.events = [events EXCEPT ![IndexOfEvent(events, task.id)] =
                                           Merged(@, task.eventData, now)],
                             !.stage = "write"]

\* The call once AsyncStorage.setItem has resolved or rejected.
Written(task, writeFails) ==
  IF writeFails THEN Ended(task, Thrown(FailureOf(task.name)))
  ELSE Ended(task,
             CASE task.name = "saveEvent" -> ReturnedEvent(task.events[1])
               [] task.name = "deleteEvent" -> ReturnedNull
               [] OTHER -> ReturnedEvent(task.events[IndexOfEvent(task.events, task.id)]))

\* handleSubmit after its await: the notification of an update, or the plan of
\* the saved event and the notification that it has none; the catch.
HandleSubmitContinues(task) ==
  IF task.result.kind = "thrown"
    THEN /\ notification' = "Failed to save event. Please try again."
         /\ UNCHANGED aiPlanGenerated
  ELSE IF task.name = "updateEvent"
    THEN /\ notification' = "Event updated successfully!"
         /\ UNCHANGED aiPlanGenerated
  ELSE IF /\ "aiGeneratedPlan" \in DOMAIN task.result.events[1]
          /\ task.result.events[1].aiGeneratedPlan # <<>>
    THEN /\ aiPlanGenerated' = Returned(task.result.events[1].aiGeneratedPlan)
         /\ UNCHANGED notification
  ELSE /\ aiPlanGenerated' = NoPlanShown
       /\ notification' =
            "Event saved! AI plan generation failed - you can try generating it again later."

\* The handler, not leaving its flag set when its call has thrown.
ContinuesWithoutFinally(task) ==
  CASE task.handler = "none" -> UNCHANGED ui
    [] task.handler = "handleSubmit" ->
         /\ HandleSubmitContinues(task)
         /\ isGeneratingAI' = (task.result.kind = "thrown")
         /\ UNCHANGED generatingAI
    [] task.handler = "handleRegenerateAI" ->
         /\ IF task.result.kind = "thrown"
              THEN /\ notification' = "Failed to generate AI plan. Please try again."
                   /\ UNCHANGED aiPlanGenerated
              ELSE /\ aiPlanGenerated' = task.result
                   /\ notification' = "AI plan regenerated successfully!"
         /\ isGeneratingAI' = (task.result.kind = "thrown")
         /\ UNCHANGED generatingAI
    [] task.handler = "generateAIPlan" ->
         /\ notification' =
              IF task.result.kind = "thrown"
                THEN "Failed to generate AI plan. Please try again."
                ELSE IF task.result.events # <<>> THEN "AI event plan generated successfully!"
                ELSE notification
         /\ generatingAI' = (IF task.result.kind = "thrown" THEN generatingAI ELSE Null)
         /\ UNCHANGED <<isGeneratingAI, aiPlanGenerated>>
    [] task.handler = "handleConfirmDelete" ->
         /\ notification' =
              IF task.result.kind = "thrown"
                THEN "Failed to delete event. Please try again."
                ELSE "Event deleted successfully!"
         /\ UNCHANGED <<isGeneratingAI, aiPlanGenerated, generatingAI>>

\* The handler that awaited the call goes on once the call has ended: its try
\* after the await or its catch, and its finally.
Continues(task) ==
  CASE task.handler = "none" -> UNCHANGED ui
    [] task.handler = "handleSubmit" ->
         /\ HandleSubmitContinues(task)
         /\ isGeneratingAI' = FALSE
         /\ UNCHANGED generatingAI
    [] task.handler = "handleRegenerateAI" ->
         /\ IF task.result.kind = "thrown"
              THEN /\ notification' = "Failed to generate AI plan. Please try again."
                   /\ UNCHANGED aiPlanGenerated
              ELSE /\ aiPlanGenerated' = task.result
                   /\ notification' = "AI plan regenerated successfully!"
         /\ isGeneratingAI' = FALSE
         /\ UNCHANGED generatingAI
    [] task.handler = "generateAIPlan" ->
         /\ notification' =
              IF task.result.kind = "thrown"
                THEN "Failed to generate AI plan. Please try again."
                ELSE IF task.result.events # <<>> THEN "AI event plan generated successfully!"
                ELSE notification
         /\ generatingAI' = Null
         /\ UNCHANGED <<isGeneratingAI, aiPlanGenerated>>
    [] task.handler = "handleConfirmDelete" ->
         /\ notification' =
              IF task.result.kind = "thrown"
                THEN "Failed to delete event. Please try again."
                ELSE "Event deleted successfully!"
         /\ UNCHANGED <<isGeneratingAI, aiPlanGenerated, generatingAI>>

\* Call t goes on to task; when it has ended, so does its handler.
Steps(t, task) ==
  /\ tasks' = [tasks EXCEPT ![t] = task]
  /\ IF task.stage = "ended" THEN Continues(task) ELSE UNCHANGED ui
  /\ UNCHANGED <<core, now>>

\* getAllEvents returns to generateAIPlanForEvent or to enhanceEventPlan.
TaskFinds ==
  \E t \in 1..Len(tasks), readFails \in BOOLEAN :
    /\ tasks[t].stage = "find"
    /\ Steps(t, Found(tasks[t], getAllEvents(readFails)))
    /\ UNCHANGED store

\* The completion side of a call ends.
TaskCompletes ==
  \E t \in 1..Len(tasks), outcome \in Outcomes :
    /\ tasks[t].stage = "generate"
    /\ Steps(t, Completed(tasks[t], outcome))
    /\ UNCHANGED store

\* getAllEvents returns to saveEvent, to deleteEvent or to updateEvent.
TaskReads ==
  \E t \in 1..Len(tasks), readFails \in BOOLEAN :
    /\ tasks[t].stage = "read"
    /\ Steps(t, Read(tasks[t], getAllEvents(readFails)))
    /\ UNCHANGED store

\* AsyncStorage.setItem resolves, the list written, or rejects.
TaskWrites ==
  \E t \in 1..Len(tasks), writeFails \in BOOLEAN :
    /\ tasks[t].stage = "write"
    /\ Steps(t, Written(tasks[t], writeFails))
    /\ store' = IF writeFails THEN store ELSE StoredEvents(tasks[t].events)

\* A method of EventService is called, by no screen.
Calls ==
  \E name \in {"saveEvent", "updateEvent", "deleteEvent", "generateAIPlanForEvent",
               "enhanceEventPlan"},
     eventId \in Targets, generateAIPlan \in BOOLEAN, suffix \in RandomSuffixes :
    /\ Begins(Task("none", name, FirstStage(name, generateAIPlan),
                   IF name = "saveEvent" THEN ToString(now) \o suffix ELSE eventId,
                   IF name \in {"saveEvent", "updateEvent"}
                     THEN [name |-> "Brunch", description |-> "Sunday at ten"]
                     ELSE EmptyDraft))
    /\ UNCHANGED ui

\* The events the history screen lists, and the one the event-planning screen edits.
Displayed == {store[i].id : i \in 1..Len(store)}

\* EventPlanningScreen.handleSubmit up to its await, the button enabled:
\* editEvent is the id of the event the screen was opened on, null when it was
\* opened to create one.
HandleSubmit ==
  \E draft \in ScreenDrafts, editEvent \in {Null} \cup Displayed, suffix \in RandomSuffixes :
    /\ ~isGeneratingAI
    /\ IF FailsValidation(draft)
         THEN /\ notification' = "Please fill in both Event Name and Description."
              /\ UNCHANGED <<core, store, now, tasks, isGeneratingAI, aiPlanGenerated,
                             generatingAI>>
         ELSE /\ isGeneratingAI' = TRUE
              /\ Begins(IF editEvent # Null
                          THEN Task("handleSubmit", "updateEvent", "read", editEvent, draft)
                          ELSE Task("handleSubmit", "saveEvent", "generate",
                                    ToString(now) \o suffix, draft))
              /\ UNCHANGED <<aiPlanGenerated, generatingAI, notification>>

\* EventPlanningScreen.handleRegenerateAI up to its await; its button is shown
\* with a plan and enabled while isGeneratingAI is false.
HandleRegenerateAIBegins ==
  \E draft \in ScreenDrafts :
    /\ ~isGeneratingAI
    /\ aiPlanGenerated # NoPlanShown
    /\ IF FailsValidation(draft)
         THEN /\ notification' = "Please fill in both Event Name and Description."
              /\ UNCHANGED <<core, store, now, tasks, isGeneratingAI, aiPlanGenerated,
                             generatingAI>>
         ELSE /\ isGeneratingAI' = TRUE
              /\ aiPlanGenerated' = NoPlanShown
              /\ Begins(Task("handleRegenerateAI", "generateEventPlanString", "generate", "",
                             draft))
              /\ UNCHANGED <<generatingAI, notification>>

\* HistoryScreen.generateAIPlan(eventId) up to its await; the button of an
\* event is disabled while generatingAI is its id.
GenerateAIPlan ==
  \E eventId \in Displayed :
    /\ generatingAI # eventId
    /\ generatingAI' = eventId
    /\ Begins(Task("generateAIPlan", "generateAIPlanForEvent", "find", eventId, EmptyDraft))
    /\ UNCHANGED <<isGeneratingAI, aiPlanGenerated, notification>>

\* HistoryScreen.handleConfirmDelete up to its await.
HandleConfirmDelete ==
  \E eventId \in Displayed :
    /\ Begins(Task("handleConfirmDelete", "deleteEvent", "read", eventId, EmptyDraft))
    /\ UNCHANGED ui

\* The application has started with its credential, the device holding Shelf.
Opened == Started({Shelf}) /\ apiKey

\* The calls of EventService, interleaved at their awaits.
NextInterleaved ==
  \/ Calls
  \/ TaskFinds
  \/ TaskCompletes
  \/ TaskReads
  \/ TaskWrites

SpecInterleaved == Opened /\ [][NextInterleaved]_vars

\* The handlers of the two screens, their calls interleaved at their awaits.
NextScreens ==
  \/ HandleSubmit
  \/ HandleRegenerateAIBegins
  \/ GenerateAIPlan
  \/ HandleConfirmDelete
  \/ TaskFinds
  \/ TaskCompletes
  \/ TaskReads
  \/ TaskWrites

SpecScreens == Opened /\ [][NextScreens]_vars

\* Every read and write of the store and every completion call resolves or
\* rejects in the end.
\* (The weak fairness of TaskWrites is written out, ENABLED <<TaskWrites>>_vars
\* being that some call is at its write.)
FairScreens ==
  /\ SpecScreens
  /\ WF_vars(TaskFinds)
  /\ WF_vars(TaskCompletes)
  /\ WF_vars(TaskReads)
  /\ \/ []<>(\A t \in 1..Len(tasks) : tasks[t].stage # "write")
     \/ []<><<TaskWrites>>_vars

\* -------------------------------------------------------------- properties

\* The answer is a plan's JSON text with no prose around it.
BarePlan(a) == a.style = "plan" /\ a.before = <<>> /\ a.after = <<>>

HasChar(s, C) == \E i \in 1..Len(s) : s[i] \in C

HasFence(s) == \E i \in 1..Len(s) : MatchesAt(s, i, Fence)

HasTrailingComma(s) == \E i \in 1..Len(s) : TrailingCommaAt(s, i)

CurlyQuotes == {LDQUO, RDQUO, LSQUO, RSQUO}

\* A text the cleanup has nothing to take from: no backtick, no curly quote, no
\* comma followed by optional whitespace and a closing bracket.
PlainText(s) == ~HasChar(s, CurlyQuotes \cup {BACKTICK}) /\ ~HasTrailingComma(s)

\* The plan with the curly quotes of its overview made straight.
Straightened(plan) ==
  JObj([k \in DOMAIN plan.v |->
          IF k = Overview
            THEN JStr(ReplaceSmartSingleQuotes(ReplaceSmartDoubleQuotes(plan.v[k].v)))
            ELSE plan.v[k]])

CollectionFields == {Timeline, Schedule, Logistics, Materials, Recommendations, Tips}

RecoveryOrder == <<"direct", "fenced", "boundary", "cleanup", "second", "fallback">>

InRecovery == pc \in {"direct", "fenced", "boundary", "cleanup", "second", "fallback"}

\* C1: once the completion has resolved with a non-empty text, generateEventPlan
\* never ends by throwing: while the cascade runs nothing has been thrown, and
\* after it the call has returned a value, whichever parses failed.
C1_NonEmptyResponseReturns ==
  generatedContent # <<>> =>
    /\ eventPlan.kind # "thrown"
    /\ InRecovery => eventPlan.kind = "pending"
    /\ ~InRecovery => eventPlan.kind = "returned"

\* C1, its case: both parses have failed on a fenced plan and the call has returned.
C1_Witness ==
  /\ eventPlan.kind = "returned"
  /\ steps = RecoveryOrder
  /\ answer.style = "plan"
  /\ answer.fence = "json"

\* C2: whatever generateEventPlan returns for a non-empty response text is an
\* object of the EventPlanResponse shape or the fallback object.
C2_ReturnsPlanOrFallback ==
  eventPlan.kind = "returned" =>
    IsEventPlanResponse(eventPlan.val) \/ eventPlan.val = FallbackPlan

\* C3: when the returned object lacks some of its collection fields (and those
\* it has are lists), generateEventPlanString completes without raising.
C3_AbsentFieldsRenderEmpty ==
  ( /\ pc \in {"done", "failed"}
    /\ eventPlan.kind = "returned"
    /\ eventPlan.val.t = "obj"
    /\ \E f \in CollectionFields : ~HasProp(eventPlan.val, f)
    /\ \A f \in CollectionFields :
         HasProp(eventPlan.val, f) => Prop(eventPlan.val, f).t = "arr" )
  => formattedPlan.kind = "returned"

\* The lines of a prompt, which its line breaks separate.
LineBreaks(text) == {i \in 1..Len(text) : SubSeq(text, i, i) = "\n"}

LinesBetween(text, breaks) ==
  {SubSeq(text, from, MinOf({i \in breaks \cup {Len(text) + 1} : i >= from}) - 1) :
     from \in {1} \cup {i + 1 : i \in breaks}}

Lines(text) == LinesBetween(text, LineBreaks(text))

StartsWith(line, prefix) ==
  Len(line) >= Len(prefix) /\ SubSeq(line, 1, Len(prefix)) = prefix

FieldLabels ==
  {"Title", "Description", "Attendees", "Location", "Purpose", "Date", "Start Time",
   "End Time", "Recurring", "Activities", "Questions for AI"}

\* The rendered value of the line of each label.
ValuesOn(lines) ==
  [label \in FieldLabels \cup {"Not specified fields"} |->
     CHOOSE v \in {SubSeq(l, Len(label) + 9, Len(l)) :
                     l \in {m \in lines : StartsWith(m, "- **" \o label \o ":** ")}} : TRUE]

Rendered(text) == ValuesOn(Lines(text))

\* The labels of the lines whose rendered value is the token "Not specified".
NotSpecifiedLines(rendered) == {l \in FieldLabels : rendered[l] = "Not specified"}

\* The pieces of a list joined with ", ".
Separators(v) == {i \in 1..(Len(v) - 1) : SubSeq(v, i, i + 2 - 1) = ", "}

PiecesBetween(v, separators) ==
  {SubSeq(v, from, MinOf({i \in separators \cup {Len(v) + 1} : i >= from}) - 1) :
     from \in {1} \cup {i + 2 : i \in separators}}

Pieces(v) == PiecesBetween(v, Separators(v))

\* The labels listed on the "Not specified fields" line.
ListedLabels(rendered) ==
  IF rendered["Not specified fields"] = "None" THEN {}
  ELSE Pieces(rendered["Not specified fields"])

\* The labels of the fields a draft leaves out: undefined, "", 0 or an empty list.
AbsentLabels(d) ==
  {l \in FieldLabels :
     \/ l = "Title" /\ ~TruthyText(d, "name")
     \/ l = "Description" /\ ~TruthyText(d, "description")
     \/ l = "Attendees" /\ ~TruthyNumber(d, "numberOfPeople")
     \/ l = "Location" /\ ~TruthyText(d, "location")
     \/ l = "Purpose" /\ ~TruthyText(d, "goal")
     \/ l = "Date" /\ ~NonEmptyList(d, "selectedDates")
     \/ l = "Start Time" /\ ~TruthyText(d, "startTime")
     \/ l = "End Time" /\ ~TruthyText(d, "endTime")
     \/ l = "Activities" /\ ~NonEmptyList(d, "activities")
     \/ l = "Questions for AI" /\ ~NonEmptyQuestions(d)}

ListedAre(listed, labels, rendered) ==
  /\ listed = labels
  /\ rendered["Not specified fields"] = "None" <=> labels = {}

ListedIsRenderedNotSpecified(rendered) ==
  ListedAre(ListedLabels(rendered), NotSpecifiedLines(rendered), rendered)

ListedIsAbsent(rendered, listed, d) ==
  /\ ListedAre(listed, AbsentLabels(d), rendered)
  /\ \A l \in listed : rendered[l] = "Not specified"

\* C4, as stated: the labels listed on the "Not specified fields" line are
\* exactly the labels of the lines whose rendered value is "Not specified", and
\* the line reads "None" exactly when there is no such line.
C4_ListedIsRenderedNotSpecified ==
  lastQuery # "" => ListedIsRenderedNotSpecified(Rendered(lastQuery))

\* C4, amended: the labels listed are exactly the labels of the fields the draft
\* leaves out (undefined, empty string, 0, empty list), every one of them is
\* rendered "Not specified" on its line, and the line reads "None" exactly when
\* the draft leaves no field out.
C4_ListedIsAbsent ==
  lastQuery # "" =>
    ListedIsAbsent(Rendered(lastQuery), ListedLabels(Rendered(lastQuery)), eventData)

\* A count of 0 is listed, and a title that reads "Not specified" is rendered so
\* and is not listed.
ZeroListedVerbatimNot(rendered, listed, d) ==
  /\ "numberOfPeople" \in DOMAIN d /\ d.numberOfPeople = 0
  /\ "Attendees" \in listed
  /\ "name" \in DOMAIN d /\ d.name = "Not specified"
  /\ rendered["Title"] = "Not specified"
  /\ "Title" \notin listed

\* C4, its case.
C4_Witness ==
  /\ lastQuery # ""
  /\ ZeroListedVerbatimNot(Rendered(lastQuery), ListedLabels(Rendered(lastQuery)), eventData)

\* C5: when neither the direct parse nor the second parse, after extraction and
\* cleanup, decodes the response, generateEventPlan returns the fallback object:
\* the failure notice as overview, one logistics entry, one recommendations
\* entry, and timeline, schedule, materials and tips empty.
C5_UndecodableGivesFallback ==
  ( /\ eventPlan.kind = "returned"
    /\ ~JSONParse(generatedContent).ok
    /\ ~JSONParse(Sanitize(BoundaryExtract(FencedExtract(generatedContent)))).ok )
  => /\ DOMAIN eventPlan.val.v = CollectionFields \cup {Overview}
     /\ Prop(eventPlan.val, Overview)
          = JStr(Chars("Unable to parse AI response. Please regenerate the plan."))
     /\ Prop(eventPlan.val, Logistics).t = "arr" /\ Len(Prop(eventPlan.val, Logistics).v) = 1
     /\ Prop(eventPlan.val, Recommendations).t = "arr"
     /\ Len(Prop(eventPlan.val, Recommendations).v) = 1
     /\ \A f \in {Timeline, Schedule, Materials, Tips} : Prop(eventPlan.val, f) = JArr(<<>>)

\* C5, its case: the response 'not json at all' has been answered.
C5_Witness ==
  /\ generatedContent = Chars("not json at all")
  /\ eventPlan.kind = "returned"
  /\ eventPlan.val = FallbackPlan

\* C6, as stated: a plan's JSON text in a fenced block normalizes to what the
\* same text normalizes to without the fence, whatever its strings hold.
C6_FencedLikeUnfenced ==
  ( /\ eventPlan.kind = "returned"
    /\ BarePlan(answer)
    /\ answer.fence # "none"
    /\ answer.trailing = <<>> )
  => eventPlan.val = NormalizeResponse(JsonText(answer.plan, <<>>))

\* C6, amended: it does so provided the plan's JSON text holds no backtick, no
\* curly quote and no comma followed by optional whitespace and a closing bracket.
C6_PlainFencedLikeUnfenced ==
  ( /\ eventPlan.kind = "returned"
    /\ BarePlan(answer)
    /\ answer.fence # "none"
    /\ answer.trailing = <<>>
    /\ PlainText(JsonText(answer.plan, <<>>)) )
  => eventPlan.val = NormalizeResponse(JsonText(answer.plan, <<>>))

\* C6, its case: a fenced plan whose overview holds escaped line breaks has
\* been returned by the second parse.
C6_Witness ==
  /\ eventPlan.kind = "returned"
  /\ BarePlan(answer)
  /\ answer.fence = "plain"
  /\ answer.trailing = <<>>
  /\ answer.plan = PlanOf(Chars("a\n\nb"), FALSE)
  /\ eventPlan.val = answer.plan
  /\ Len(steps) = 5

\* C7, as stated: prose, a plan's JSON text, prose normalizes to the plan, for
\* every prose.
C7_ProseAroundPlan ==
  ( /\ eventPlan.kind = "returned"
    /\ answer.style = "plan"
    /\ answer.fence = "none"
    /\ answer.trailing = <<>> )
  => eventPlan.val = answer.plan

\* C7, amended: it does so provided the prose before holds no '{', the prose
\* after holds no '}', neither holds a fence, the response as a whole is not the
\* JSON text of another value, and the plan's JSON text is plain.
C7_CleanProseAroundPlan ==
  ( /\ eventPlan.kind = "returned"
    /\ answer.style = "plan"
    /\ answer.fence = "none"
    /\ answer.trailing = <<>>
    /\ ~HasChar(answer.before, {"{"})
    /\ ~HasChar(answer.after, {"}"})
    /\ ~HasFence(answer.before) /\ ~HasFence(answer.after)
    /\ JSONParse(generatedContent).ok => JSONParse(generatedContent).val = answer.plan
    /\ PlainText(JsonText(answer.plan, <<>>)) )
  => eventPlan.val = answer.plan

\* C7, its case: a plan between two sentences has been cut out and returned.
C7_Witness ==
  /\ eventPlan.kind = "returned"
  /\ answer.style = "plan"
  /\ answer.before = Chars("Here is your plan:\n")
  /\ answer.after = Chars("\nEnjoy!")
  /\ cleanedContent = JsonText(answer.plan, <<>>)
  /\ eventPlan.val = answer.plan

\* C8, as stated: a valid JSON response with curly quotes in its strings is
\* returned with those quotes made straight.
C8_CurlyQuotesMadeStraight ==
  ( /\ eventPlan.kind = "returned"
    /\ BarePlan(answer)
    /\ answer.fence = "none"
    /\ answer.trailing = <<>>
    /\ HasChar(Prop(answer.plan, Overview).v, CurlyQuotes) )
  => eventPlan.val = Straightened(answer.plan)

\* C8, amended: a valid JSON response with curly quotes in its strings is
\* returned by the direct parse with those quotes as they are; they are made
\* straight only where the direct parse fails and the cleanup runs, as for the
\* same text in a fenced block, when it holds curly single quotes and is
\* otherwise plain.
C8_CurlyQuotesKept ==
  /\ ( /\ eventPlan.kind = "returned"
       /\ BarePlan(answer)
       /\ answer.fence = "none"
       /\ answer.trailing = <<>>
       /\ HasChar(Prop(answer.plan, Overview).v, CurlyQuotes) )
     => eventPlan.val = answer.plan /\ steps = <<"direct">>
  /\ ( /\ eventPlan.kind = "returned"
       /\ BarePlan(answer)
       /\ answer.fence # "none"
       /\ answer.trailing = <<>>
       /\ HasChar(Prop(answer.plan, Overview).v, {LSQUO, RSQUO})
       /\ PlainText(ReplaceSmartSingleQuotes(JsonText(answer.plan, <<>>))) )
     => eventPlan.val = Straightened(answer.plan)

\* C8, its case: a plan whose overview is in curly double quotes has been
\* returned by the direct parse.
C8_Witness ==
  /\ eventPlan.kind = "returned"
  /\ BarePlan(answer)
  /\ answer.fence = "none"
  /\ answer.trailing = <<>>
  /\ Prop(answer.plan, Overview).v = <<LDQUO, "h", "i", RDQUO>>
  /\ Prop(eventPlan.val, Overview).v = <<LDQUO, "h", "i", RDQUO>>

\* C9, as stated: a plan's JSON text with trailing commas before its closing
\* brackets normalizes to the plan.
C9_TrailingCommasDeleted ==
  ( /\ eventPlan.kind = "returned"
    /\ BarePlan(answer)
    /\ answer.fence = "none"
    /\ answer.trailing # <<>> )
  => eventPlan.val = answer.plan

\* C9, amended: it does so provided the plan's JSON text is plain, and every
\* closing bracket has one trailing comma at most: of two commas before a
\* closing brace one is left, and the fallback object is returned.
C9_PlainTrailingCommasDeleted ==
  /\ ( /\ eventPlan.kind = "returned"
       /\ BarePlan(answer)
       /\ answer.fence = "none"
       /\ answer.trailing # <<>>
       /\ PlainText(JsonText(answer.plan, <<>>)) )
     => eventPlan.val = answer.plan
  /\ ( /\ eventPlan.kind = "returned"
       /\ generatedContent = Chars("{\"overview\":\"x\",,}") )
     => eventPlan.val = FallbackPlan

\* C9, its case: a plan with a trailing comma and a line break before each
\* closing bracket of its five non-empty lists and objects has been returned.
C9_Witness ==
  /\ eventPlan.kind = "returned"
  /\ BarePlan(answer)
  /\ answer.fence = "none"
  /\ answer.trailing = <<",", "\n">>
  /\ answer.plan = PlanOf(Chars("x"), TRUE)
  /\ eventPlan.val = answer.plan

\* C10: the steps taken are always the first steps of the order direct parse,
\* fenced-block extraction, boundary extraction, cleanup, second parse, fallback;
\* a response that decodes as a whole is returned as decoded after the direct
\* parse alone, with no working text made; and a response the second parse
\* decodes is returned without the fallback step.
C10_FixedOrderFirstSuccess ==
  /\ Len(steps) <= Len(RecoveryOrder)
  /\ steps = SubSeq(RecoveryOrder, 1, Len(steps))
  /\ ( eventPlan.kind = "returned" /\ JSONParse(generatedContent).ok )
     => /\ steps = <<"direct">>
        /\ eventPlan.val = JSONParse(generatedContent).val
        /\ cleanedContent = <<>>
  /\ ( eventPlan.kind = "returned" /\ ~JSONParse(generatedContent).ok
       /\ JSONParse(cleanedContent).ok )
     => /\ steps = SubSeq(RecoveryOrder, 1, 5)
        /\ eventPlan.val = JSONParse(cleanedContent).val

\* C10, its case: a response that decodes as a whole, with a backtick in its
\* overview, has been returned after the direct parse alone, backtick included.
C10_Witness ==
  /\ eventPlan.kind = "returned"
  /\ steps = <<"direct">>
  /\ BarePlan(answer)
  /\ Prop(eventPlan.val, Overview).v = <<"a", BACKTICK, "b">>

\* The twelve labels of the user-input block, in the order of its lines.
BlockLabels ==
  <<"Title", "Description", "Attendees", "Location", "Purpose", "Date", "Start Time",
    "End Time", "Recurring", "Activities", "Questions for AI", "Not specified fields">>

\* The lines of a prompt from a position on, in order.
RECURSIVE LinesUpTo(_, _, _, _)
LinesFrom(text, breaks, from) ==
  LinesUpTo(text, breaks, from, MinOrZero({i \in breaks : i >= from}))

LinesUpTo(text, breaks, from, to) ==
  IF to = 0 THEN <<SubSeq(text, from, Len(text))>>
  ELSE <<SubSeq(text, from, to - 1)>> \o LinesFrom(text, breaks, to + 1)

LineSequence(text) == LinesFrom(text, LineBreaks(text), 1)

\* The lines are twelve, the n-th carrying the n-th label.
TwelveLabelledLines(lines) ==
  /\ Len(lines) = 12
  /\ \A n \in 1..12 : StartsWith(lines[n], "- **" \o BlockLabels[n] \o ":** ")

\* C11: whenever generateEventPlan has been handed a draft and had its client,
\* be the draft one a screen submitted or one generateAIPlanForEvent rebuilt
\* from a stored event (optional fields missing, questions in the legacy form
\* of one string), buildEventInput has returned a well-formed block for it (the
\* debug buffer holds twelve labelled lines) and no error has ended the call
\* before its request left.
C11_BuilderIsTotal ==
  (op.stage = "generate" /\ pc # "idle" /\ openai) =>
    /\ TwelveLabelledLines(LineSequence(lastQuery))
    /\ eventPlan.kind = "thrown" => request # <<>>

\* The rendered value of the n-th line: what follows its label.
ValueAt(lines, n) == SubSeq(lines[n], Len(BlockLabels[n]) + 9, Len(lines[n]))

\* What the line of a label renders of a draft that has the field.
ValueOf(d, label) ==
  CASE label = "Title" -> d.name
    [] label = "Description" -> d.description
    [] label = "Attendees" -> ToString(d.numberOfPeople)
    [] label = "Location" -> d.location
    [] label = "Purpose" -> d.goal
    [] label = "Date" -> JoinStrings(d.selectedDates, ", ")
    [] label = "Start Time" -> d.startTime
    [] label = "End Time" -> d.endTime
    [] label = "Activities" ->
         JoinStrings([i \in 1..Len(d.activities) |->
                        IF "description" \in DOMAIN d.activities[i]
                             /\ d.activities[i].description # ""
                          THEN d.activities[i].name \o " (" \o d.activities[i].description \o ")"
                          ELSE d.activities[i].name], ", ")
    [] label = "Questions for AI" ->
         JoinStrings([i \in 1..Len(d.aiQuestions) |-> d.aiQuestions[i].question], "; ")

\* What the line "Recurring" renders.
RecurringOf(d) ==
  IF "isRecurring" \in DOMAIN d /\ d.isRecurring
    THEN IF "recurringFrequency" \in DOMAIN d /\ d.recurringFrequency # ""
           THEN "Yes (" \o d.recurringFrequency \o ")"
           ELSE "Yes (frequency not specified)"
    ELSE "No"

\* The lines are the twelve labelled lines in order, each rendering its field.
RendersDraft(lines, d) ==
  /\ TwelveLabelledLines(lines)
  /\ \A n \in 1..11 :
       ValueAt(lines, n) =
         IF BlockLabels[n] = "Recurring" THEN RecurringOf(d)
         ELSE IF BlockLabels[n] \in AbsentLabels(d) THEN "Not specified"
         ELSE ValueOf(d, BlockLabels[n])

\* C12: the block built for a draft is the twelve labelled lines Title,
\* Description, Attendees, Location, Purpose, Date, Start Time, End Time,
\* Recurring, Activities, Questions for AI, Not specified fields, each once and
\* in this order; a field the draft leaves out (or an empty list) is rendered
\* "Not specified", dates are joined with ", ", activities are rendered name or
\* name (description) and joined with ", ", questions are joined with "; ", and
\* Recurring reads "Yes (<frequency or frequency not specified>)" or "No".
C12_TwelveLinesInOrder ==
  lastQuery # "" => RendersDraft(LineSequence(lastQuery), eventData)

\* C12, its case: a draft without a title and with two activities, one of them
\* described, has been rendered.
C12_Witness ==
  /\ lastQuery # ""
  /\ "name" \notin DOMAIN eventData
  /\ "activities" \in DOMAIN eventData
  /\ eventData.activities = ActivityList(2)
  /\ ValueAt(LineSequence(lastQuery), 1) = "Not specified"
  /\ ValueAt(LineSequence(lastQuery), 10) = "Toast (by the host), Dance"

\* The request holds three messages: system, user input, output requirements.
ThreeBlocks(messages, eventInput) ==
  /\ Len(messages) = 3
  /\ messages[1].role = "system"
  /\ messages[2].role = "user"
  /\ messages[2].content = "### Event Input\n" \o eventInput
  /\ messages[3].role = "user"
  /\ StartsWith(messages[3].content, Chars("### Output Requirements"))

\* C13: every plan-generation request carries exactly three message blocks, in
\* the order system, user input, output requirements, and from one request to
\* the next, whatever the two drafts, the system block and the
\* output-requirements block are the same.
C13_ThreeBlocksTwoFixed ==
  /\ [](request # <<>> => ThreeBlocks(request, lastQuery))
  /\ [][(request # <<>> /\ request' # <<>>) =>
          (request'[1] = request[1] /\ request'[3] = request[3])]_vars

\* C13, its case: a request has left for a draft with questions, its plan has
\* been stored, and a second request has left for a draft without questions.
C13_Witness ==
  /\ sent = 2
  /\ pc = "awaiting"
  /\ "aiQuestions" \notin DOMAIN eventData
  /\ request[2].content = "### Event Input\n" \o buildEventInput(eventData)
  /\ Len(store) = 1
  /\ "aiQuestions" \in DOMAIN store[1]
  /\ "aiGeneratedPlan" \in DOMAIN store[1]

\* generateEventPlan has been invoked by the operation under way (or last ended).
Invoked ==
  /\ op.name \in {"saveEvent", "generateAIPlanForEvent", "generateEventPlanString"}
  /\ pc # "idle"

\* That invocation ended before its block was built: initializeOpenAI threw, or
\* the builder did.
EndedBeforeBlock ==
  /\ eventPlan.kind = "thrown"
  /\ eventPlan.message \in
       {"Failed to generate event plan: " \o ConfigurationMessage,
        "Failed to generate event plan: eventData.aiQuestions.map is not a function"}

\* C14, as stated: after any sequence of invocations of generateEventPlan,
\* getLastQuery returns the user-input block of the draft of the most recent
\* one, however it ended: successfully, on a failed or empty completion, or on
\* the missing credential.
C14_LastQueryOfLastInvocation ==
  (Invoked /\ ~buildEventInputThrows(eventData)) => lastQuery = buildEventInput(eventData)

\* C14, amended: getLastQuery returns the user-input block built by the most
\* recent invocation that built one, however that invocation ended afterwards
\* (successfully, on a failed or empty completion); an invocation that ends before
\* its block is built (the credential is missing and no client is cached, or the
\* builder raises) leaves the buffer as it was.
C14_LastQueryOfLastBlockBuilt ==
  /\ []((Invoked /\ ~EndedBeforeBlock) => lastQuery = buildEventInput(eventData))
  /\ [][(Invoked' /\ EndedBeforeBlock') => lastQuery' = lastQuery]_vars

\* C14, its case: a plan was generated and stored for a first draft, and the
\* completion call for a second draft has failed.
C14_Witness ==
  /\ Invoked
  /\ sent = 2
  /\ eventPlan = Thrown("Failed to generate event plan: Connection error.")
  /\ "aiQuestions" \notin DOMAIN eventData
  /\ lastQuery = buildEventInput(eventData)
  /\ Len(store) = 1
  /\ "aiQuestions" \in DOMAIN store[1]
  /\ "aiGeneratedPlan" \in DOMAIN store[1]

\* The event carries every field of the draft, with the draft's value.
CarriesDraft(event, draft) ==
  \A f \in DOMAIN draft : f \in DOMAIN event /\ event[f] = draft[f]

\* saveEvent has ended, having called generateEventPlanString, which threw.
SavedAfterFailedGeneration ==
  /\ op.name = "saveEvent"
  /\ op.stage = "ended"
  /\ formattedPlan.kind = "thrown"

\* C15: when saveEvent was asked for a plan and generating it threw (credential
\* missing, completion rejected, empty response, error while flattening), and
\* reading and writing the store worked, saveEvent has returned the new event,
\* the event is in the store, first, with every field of the submitted draft,
\* and it has no plan.
C15_GenerationFailureStillSaves ==
  (SavedAfterFailedGeneration /\ ~op.readFailed /\ ~op.writeFailed) =>
    /\ result.kind = "returned"
    /\ store = <<result.events[1]>> \o op.before
    /\ store[1].id = op.id
    /\ CarriesDraft(store[1], op.eventData)
    /\ "aiGeneratedPlan" \notin DOMAIN store[1]

\* C15, its case: the completion answered a plan without its collections, the
\* flattening raised, and the full draft was saved before the stored event.
C15_Witness ==
  /\ SavedAfterFailedGeneration
  /\ formattedPlan = Thrown("TypeError")
  /\ ~op.readFailed /\ ~op.writeFailed
  /\ op.eventData = FullDraft
  /\ Len(store) = 2
  /\ store[1].name = "Gala"

\* The generic failure each operation throws.
GenericFailure ==
  [n \in {"saveEvent", "updateEvent", "deleteEvent"} |->
     CASE n = "saveEvent" -> "Failed to save event"
       [] n = "updateEvent" -> "Failed to update event"
       [] n = "deleteEvent" -> "Failed to delete event"]

\* C16: when reading the stored list or writing it has failed during saveEvent,
\* updateEvent or deleteEvent, the operation has thrown its generic failure: it
\* never reports success after a read or a write of the store has failed.
C16_StoreFailureIsThrown ==
  ( /\ op.name \in {"saveEvent", "updateEvent", "deleteEvent"}
    /\ op.stage = "ended"
    /\ op.readFailed \/ op.writeFailed )
  => result = Thrown(GenericFailure[op.name])

\* The completion has resolved without text: no content, or the empty string.
EmptyAnswer == answer.style = "null" \/ (answer.style = "raw" /\ answer.text = <<>>)

\* C17: when the completion returns no text, generateEventPlan has thrown an
\* error with a readable message, returning no plan and no fallback (and so
\* has generateEventPlanString), enhanceExistingPlan has thrown one too, and
\* generateActivitySuggestions has returned the empty sequence.
C17_EmptyCompletion ==
  EmptyAnswer =>
    /\ op.name \in {"saveEvent", "generateAIPlanForEvent", "generateEventPlanString"} =>
         /\ eventPlan = Thrown("Failed to generate event plan: Failed to generate event plan")
         /\ formattedPlan = eventPlan
         /\ steps = <<>>
    /\ op.name = "enhanceEventPlan" =>
         enhancedPlan = Thrown("Failed to enhance event plan: Failed to enhance event plan")
    /\ op.name = "getActivitySuggestions" => suggestions = Returned(<<>>)

\* C17, its case: a plan was generated and stored, and the completion asked to
\* enhance it has resolved without content.
C17_Witness ==
  /\ EmptyAnswer
  /\ op.name = "enhanceEventPlan"
  /\ enhancedPlan.kind = "thrown"
  /\ Len(store) = 1
  /\ "aiGeneratedPlan" \in DOMAIN store[1]

\* C18: with the credential missing, every invocation of generateEventPlan and
\* of enhanceExistingPlan, the first and any later one, has failed at once with
\* an error whose message gives the configuration cause; no completion request
\* has been issued (none is awaited, none is repeated) and no client is cached.
C18_MissingCredentialFailsAtOnce ==
  ~apiKey =>
    /\ ~openai
    /\ sent = 0
    /\ request = <<>>
    /\ pc \in {"idle", "failed", "done"}
    /\ Invoked =>
         /\ eventPlan = Thrown("Failed to generate event plan: " \o ConfigurationMessage)
         /\ formattedPlan = eventPlan
         /\ pc = "failed"
    /\ (op.name = "enhanceEventPlan" /\ op.id \in {op.before[i].id : i \in 1..Len(op.before)}
          /\ ~op.readFailed) =>
         /\ enhancedPlan = Thrown("Failed to enhance event plan: " \o ConfigurationMessage)
         /\ pc = "failed"

\* C18, its case: without the credential an event was saved, its plan having
\* failed, and the later call to generate a plan for it has failed again.
C18_Witness ==
  /\ ~apiKey
  /\ now = 3
  /\ op.name = "generateAIPlanForEvent"
  /\ Len(op.before) = 1
  /\ op.before[1].id = "1k3x9q2m1z"
  /\ op.id = "1k3x9q2m1z"
  /\ Invoked
  /\ result = Thrown("Failed to generate AI plan")

\* The positions of a text that hold a character other than whitespace.
Inked(text) == {i \in 1..Len(text) : text[i] \notin RegexSpace}

\* The positions where a line of the text starts and holds such a character
\* before its end.
NonBlankStarts(text, inked) ==
  {a \in {1} \cup {i + 1 : i \in {k \in 1..Len(text) : text[k] = "\n"}} :
     \E i \in inked : i >= a /\ \A k \in a..i : text[k] # "\n"}

\* The line that starts at position a, from its first to its last character
\* other than whitespace.
InkOfLine(text, inked, a) ==
  SubSeq(text,
         MinOf({i \in inked : i >= a}),
         MaxOf({i \in inked : i >= a /\ \A k \in a..i : text[k] # "\n"}))

\* The non-blank lines of a text, each without the whitespace around it, in order.
NonBlankLinesTrimmed(text, starts) ==
  [n \in 1..Cardinality(starts) |->
     InkOfLine(text, Inked(text),
               CHOOSE a \in starts : Cardinality({b \in starts : b < a}) = n - 1)]

\* What generateActivitySuggestions is to return for what the completion did.
SuggestionsFor(a) ==
  IF a.style = "raw" /\ a.text # <<>>
    THEN NonBlankLinesTrimmed(a.text, NonBlankStarts(a.text, Inked(a.text)))
    ELSE <<>>

\* C19: generateActivitySuggestions and getActivitySuggestions never throw; when
\* the completion has failed, or returned nothing, or could not be asked, the
\* result is the empty sequence, and otherwise it is the non-blank lines of the
\* response, in order, each without the whitespace around it: no element is
\* empty or starts or ends with whitespace.
C19_SuggestionsNeverThrow ==
  op.name = "getActivitySuggestions" =>
    /\ suggestions.kind \in {"pending", "returned"}
    /\ result.kind \in {"pending", "returned"}
    /\ pc = "done" =>
         /\ suggestions = Returned(SuggestionsFor(answer))
         /\ \A i \in 1..Len(suggestions.val) :
              /\ suggestions.val[i] # <<>>
              /\ Head(suggestions.val[i]) \notin RegexSpace
              /\ suggestions.val[i][Len(suggestions.val[i])] \notin RegexSpace
    /\ op.stage = "ended" => result = ReturnedTexts(suggestions.val)

\* C19, its case: a response with blank lines, and lines with whitespace around
\* them, has been returned as its two suggestions.
C19_Witness ==
  /\ op.name = "getActivitySuggestions"
  /\ op.stage = "ended"
  /\ answer.style = "raw"
  /\ answer.text = Chars(" Quiz night \r\n\n\t\n- Dance  ")
  /\ result = ReturnedTexts(<<Chars("Quiz night"), Chars("- Dance")>>)

\* The stored event with the id of the operation.
Targeted == store[IndexOfEvent(store, op.id)]

\* C20: for every non-empty completion text T, enhanceExistingPlan returns
\* exactly T (nothing is parsed, extracted, cleaned up or replaced by a
\* fallback), and enhanceEventPlan, the store reading and writing as it should,
\* stores exactly T as the plan of the event it was called for and returns
\* that event.
C20_EnhancedPlanVerbatim ==
  (op.name = "enhanceEventPlan" /\ answer.style = "raw" /\ answer.text # <<>>) =>
    /\ enhancedPlan = Returned(answer.text)
    /\ (op.stage = "ended" /\ ~op.readFailed /\ ~op.writeFailed) =>
         /\ IndexOfEvent(store, op.id) # 0
         /\ Targeted.aiGeneratedPlan = answer.text
         /\ result = ReturnedEvent(Targeted)
         /\ Len(store) = Len(op.before)

\* C20, its case: the completion answered a fenced JSON text with a trailing
\* comma, and the stored event holds it as its plan, character for character.
C20_Witness ==
  /\ op.name = "enhanceEventPlan"
  /\ op.stage = "ended"
  /\ answer.style = "raw"
  /\ answer.text = Fence \o Chars("json\n{\"overview\":\"x\",}\n") \o Fence
  /\ IndexOfEvent(store, op.id) # 0
  /\ Targeted.aiGeneratedPlan = answer.text

\* The titles of the sections, in the order of the collection fields.
SectionTitles ==
  <<"## Timeline", "## Activity Schedule", "## Logistics", "## Materials Needed",
    "## Recommendations", "## Tips for Success">>

\* The line of one entry of the n-th collection field.
EntryLine(n, entry) ==
  CASE n = 1 -> Chars("- **") \o Prop(entry, Time).v \o Chars(":** ") \o Prop(entry, Activity).v
    [] n = 2 -> Chars("- **") \o Prop(entry, Activity).v \o Chars("** - ")
                  \o Prop(entry, Details).v \o Chars(" (Location: ")
                  \o Prop(entry, Location).v \o Chars(")")
    [] OTHER -> Chars("- ") \o entry.v

\* The title and the entry lines of every collection field with an entry, from
\* the n-th field on.
RECURSIVE SectionLinesFrom(_, _)
SectionLinesFrom(plan, n) ==
  IF n > 6 THEN <<>>
  ELSE (IF Len(Prop(plan, SectionFields[n]).v) = 0 THEN <<>>
        ELSE <<Chars(SectionTitles[n])>>
               \o [i \in 1..Len(Prop(plan, SectionFields[n]).v) |->
                     EntryLine(n, Prop(plan, SectionFields[n]).v[i])])
         \o SectionLinesFrom(plan, n + 1)

\* The text opens with head, and the lines after it that are not empty are the
\* section lines of the plan.
RendersWith(text, plan, head) ==
  /\ Len(text) >= Len(head)
  /\ SubSeq(text, 1, Len(head)) = head
  /\ SelectSeq(Split(SubSeq(text, Len(head) + 1, Len(text)), "\n"), LAMBDA line : line # <<>>)
       = SectionLinesFrom(plan, 1)

RendersPlan(text, plan) ==
  RendersWith(text, plan, Chars("## Event Overview\n") \o Prop(plan, Overview).v \o Chars("\n\n"))

\* C21: the rendering of a plan of the EventPlanResponse shape opens with the
\* overview header and the overview, and goes on with one titled section for
\* each collection field that has an entry, in the order timeline, schedule,
\* logistics, materials, recommendations, tips, each entry on its line in the
\* form of its field; a field without entries gives no title and no line.
C21_SectionsOfNonEmptyFields ==
  (pc = "done" /\ eventPlan.kind = "returned" /\ IsEventPlanResponse(eventPlan.val)) =>
    /\ formattedPlan.kind = "returned"
    /\ RendersPlan(formattedPlan.val, eventPlan.val)

\* C21, its case: a plan with only its overview and its tips has been rendered.
C21_Witness ==
  /\ pc = "done"
  /\ eventPlan = Returned(TipsOnlyPlan)
  /\ formattedPlan = Returned(Chars("## Event Overview\nx\n\n## Tips for Success\n- Smile\n"))

\* The text has characters, all of them white space.
WhiteSpaceOnly(text) == text # <<>> /\ \A i \in 1..Len(text) : text[i] \in RegexSpace

\* C30: a completion text of white space only is not the empty response: with
\* it generateEventPlan throws nothing and, once through the cascade, has
\* returned the fallback object; with the empty string it has thrown the error
\* of the empty response.
C30_WhiteSpaceIsNotEmpty ==
  /\ WhiteSpaceOnly(generatedContent) =>
       /\ eventPlan.kind # "thrown"
       /\ ~InRecovery => eventPlan = Returned(FallbackPlan)
  /\ (answer.style = "raw" /\ answer.text = <<>>) =>
       eventPlan = Thrown("Failed to generate event plan: Failed to generate event plan")

\* C30, its case: the completion answered blanks, a line break and a tab, and
\* the fallback object came back after both parses had failed.
C30_Witness ==
  /\ generatedContent = Chars(" \n\t ")
  /\ steps = RecoveryOrder
  /\ eventPlan = Returned(FallbackPlan)

\* C22: the rendering is a function of the structured plan alone: in every
\* state in which generateEventPlanString has ended after generateEventPlan
\* returned, its outcome is the one rendering of that plan, whatever the draft,
\* the debug buffer and the invocations before it; so two renderings of equal
\* plans are the same string.
C22_RenderingOfThePlanAlone ==
  (pc \in {"done", "failed"} /\ eventPlan.kind = "returned") =>
    formattedPlan = IF FormatPlan(eventPlan.val).throws
                      THEN Thrown("TypeError")
                      ELSE Returned(FormatPlan(eventPlan.val).text)

\* C22, its case: a plan rendered for one draft and stored, and the same plan
\* rendered again in a later invocation for another draft, to the same string.
C22_Witness ==
  /\ pc = "done"
  /\ op.name = "generateEventPlanString"
  /\ Len(store) >= 1
  /\ "aiGeneratedPlan" \in DOMAIN store[1]
  /\ formattedPlan = Returned(store[1].aiGeneratedPlan)
  /\ store[1].name # eventData.name
  /\ lastQuery = buildEventInput(eventData)

\* The completion side of the operation that has ended threw.
CompletionSideThrew ==
  \/ op.name = "generateAIPlanForEvent" /\ formattedPlan.kind = "thrown"
  \/ op.name = "enhanceEventPlan" /\ enhancedPlan.kind = "thrown"

\* C26: when generateAIPlanForEvent or enhanceEventPlan has ended after its
\* completion side threw, it has thrown its generic failure and the stored list
\* is the one it found: the event has the plan and the update date it had.
C26_FailedGenerationKeepsStore ==
  (op.stage = "ended" /\ CompletionSideThrew) =>
    /\ result = Thrown(IF op.name = "generateAIPlanForEvent"
                         THEN "Failed to generate AI plan"
                         ELSE "Failed to enhance event plan")
    /\ store = op.before

\* C26, its case: the regeneration of a stored event that has a plan failed.
C26_Witness ==
  /\ op.name = "generateAIPlanForEvent"
  /\ op.stage = "ended"
  /\ formattedPlan.kind = "thrown"
  /\ result.kind = "thrown"
  /\ IndexOfEvent(store, op.id) # 0
  /\ "aiGeneratedPlan" \in DOMAIN store[IndexOfEvent(store, op.id)]
  /\ store[IndexOfEvent(store, op.id)].updatedAt < op.time

\* The fields the update of the operation supplies.
Supplied ==
  IF op.name = "updateEvent" THEN DOMAIN op.eventData ELSE {"aiGeneratedPlan"}

\* Event after is event before with the supplied fields set and the update
\* date refreshed: every other field it had, it has with the value it had.
OnlySuppliedChanged(before, after) ==
  /\ after.id = before.id
  /\ after.createdAt = before.createdAt
  /\ after.updatedAt >= op.time
  /\ DOMAIN after = DOMAIN before \cup Supplied
  /\ \A f \in DOMAIN before \ (Supplied \cup {"updatedAt"}) : after[f] = before[f]

\* C27: when updateEvent has succeeded (called by the screen on an edit, or by
\* generateAIPlanForEvent or enhanceEventPlan with the new plan), the stored
\* list has the events it had in the order it had them, every event but the
\* targeted one as it was; the targeted event has its id, its creation date and
\* every field the update did not supply as they were (the stored plan, when
\* the update supplies draft fields), and its update date is refreshed.
C27_UpdateTouchesOnlyItsTarget ==
  ( /\ op.name \in {"updateEvent", "generateAIPlanForEvent", "enhanceEventPlan"}
    /\ op.stage = "ended"
    /\ result.kind = "returned"
    /\ result.events # <<>> )
  => /\ Len(store) = Len(op.before)
     /\ \A i \in 1..Len(store) :
          IF op.before[i].id = op.id
            THEN OnlySuppliedChanged(op.before[i], store[i])
            ELSE store[i] = op.before[i]

\* C27, its case: of two stored events the one with a plan and a location was
\* updated with a draft that supplies neither.
C27_Witness ==
  /\ op.name = "updateEvent"
  /\ op.stage = "ended"
  /\ result.kind = "returned"
  /\ result.events # <<>>
  /\ Len(store) = 2
  /\ "location" \notin DOMAIN op.eventData
  /\ {"location", "aiGeneratedPlan"} \subseteq DOMAIN store[IndexOfEvent(store, op.id)]
  /\ store[IndexOfEvent(store, op.id)].name = "Picnic"

\* The calls whose completion call is outstanding.
Outstanding == {t \in 1..Len(tasks) : tasks[t].stage = "generate"}

\* C23: at every moment at most one completion call is outstanding: a call
\* begun by a submission or a regeneration, in the event-planning screen or in
\* the history screen, keeps every control that begins another disabled until
\* it has resolved or rejected.
C23_OneCompletionOutstanding == Cardinality(Outstanding) <= 1

\* The ids of the events of a list.
IdsOf(events) == {events[i].id : i \in 1..Len(events)}

\* The ids of the events stored so far: those the device held at the start and
\* those of the saveEvent calls that have returned.
EverStored ==
  IdsOf(Shelf) \cup {tasks[t].id : t \in {u \in 1..Len(tasks) :
                                            /\ tasks[u].name = "saveEvent"
                                            /\ tasks[u].stage = "ended"
                                            /\ tasks[u].result.kind = "returned"}}

\* The ids deleteEvent has been called on.
AskedToDelete ==
  {tasks[t].id : t \in {u \in 1..Len(tasks) : tasks[u].name = "deleteEvent"}}

\* Call t is a saveEvent whose write this step has made.
SaveWrites(t) ==
  /\ tasks[t].name = "saveEvent"
  /\ tasks[t].stage = "write"
  /\ tasks'[t].result.kind = "returned"

\* C24: whatever the interleaving of the calls of EventService, and whether or
\* not a read of the store fails, every event stored on which deleteEvent was
\* never called is in the store, and the list saveEvent writes is the list
\* stored before with the new event put in front.
C24_EventsLeaveOnlyByDelete ==
  /\ [](EverStored \ AskedToDelete \subseteq IdsOf(store))
  /\ [][\A t \in 1..Len(tasks) :
          SaveWrites(t) =>
            /\ Len(store') = Len(store) + 1
            /\ store'[1].id = tasks[t].id
            /\ \A i \in 1..Len(store) : store'[i + 1] = store[i]]_vars

\* Call t is an updateEvent, a generateAIPlanForEvent or an enhanceEventPlan
\* that takes a step.
LooksUp(t) ==
  /\ tasks[t].name \in {"updateEvent", "generateAIPlanForEvent", "enhanceEventPlan"}
  /\ tasks'[t] # tasks[t]

\* C25: when the list updateEvent, generateAIPlanForEvent or enhanceEventPlan
\* reads does not hold the id it was called with, the call returns null and the
\* stored list stays as it is; and the updateEvent that follows a completion
\* call reads the list anew, so that an event deleted while the completion call
\* was outstanding is not found and not written back.
C25_AbsentIdReturnsNull ==
  [][\A t \in 1..Len(tasks) :
       LooksUp(t) =>
         /\ (tasks[t].stage \in {"find", "read"} /\ IndexOfEvent(store, tasks[t].id) = 0) =>
              /\ tasks'[t].stage = "ended"
              /\ tasks'[t].result = ReturnedNull
              /\ store' = store
         /\ tasks[t].stage = "generate" =>
              /\ tasks'[t].stage \in {"read", "ended"}
              /\ store' = store]_vars

\* C25, its case: the event was found, the completion call returned a plan for
\* it, deleteEvent removed it meanwhile, and the regeneration returned null
\* with the event not in the store.
C25_Witness ==
  \E t \in 1..Len(tasks), d \in 1..Len(tasks) :
    /\ tasks[t].name = "generateAIPlanForEvent"
    /\ tasks[t].stage = "ended"
    /\ tasks[t].plan.kind = "returned"
    /\ tasks[t].result = ReturnedNull
    /\ tasks[d].name = "deleteEvent"
    /\ tasks[d].id = tasks[t].id
    /\ tasks[d].stage = "ended"
    /\ tasks[d].result.kind = "returned"
    /\ tasks[t].id \notin IdsOf(store)

\* The edits the event-planning screen submitted whose updateEvent returned the
\* updated event.
EditsStored ==
  {t \in 1..Len(tasks) :
     /\ tasks[t].handler = "handleSubmit"
     /\ tasks[t].name = "updateEvent"
     /\ tasks[t].stage = "ended"
     /\ tasks[t].result.kind = "returned"
     /\ tasks[t].result.events # <<>>}

\* C28: the event-planning screen shows that the event was updated only when
\* an updateEvent it called has updated the event in the store: there is no
\* such notification when updateEvent returned null.
C28_UpdateReportedOnlyWhenStored ==
  notification = "Event updated successfully!" => EditsStored # {}

\* The handlers that set a flag while they run.
FlagHandlers == {"handleSubmit", "handleRegenerateAI", "generateAIPlan"}

\* C29: provided the completion calls and the reads and writes of the store
\* resolve or reject in the end, every run of handleSubmit, handleRegenerateAI
\* and of the history screen's generateAIPlan that has set its flag comes to
\* its end, and at its end, on success and on every failure, isGeneratingAI is
\* set to false, generatingAI to null.
C29_FlagsReleased ==
  /\ \A t \in 1..MaxTasks :
       (t <= Len(tasks) /\ tasks[t].handler \in FlagHandlers)
         ~> (t <= Len(tasks) /\ tasks[t].stage = "ended")
  /\ [][\A t \in 1..Len(tasks) :
          (tasks[t].stage # "ended" /\ tasks'[t].stage = "ended") =>
            /\ tasks[t].handler \in {"handleSubmit", "handleRegenerateAI"} => ~isGeneratingAI'
            /\ tasks[t].handler = "generateAIPlan" => generatingAI' = Null]_vars

\* C29, its case: a submission whose saveEvent threw and a generation in the
\* history screen that threw have ended, and both flags are released.
C29_Witness ==
  /\ Len(tasks) = 2
  /\ \A t \in 1..2 : tasks[t].stage = "ended" /\ tasks[t].result.kind = "thrown"
  /\ {tasks[1].handler, tasks[2].handler} = {"handleSubmit", "generateAIPlan"}
  /\ ~isGeneratingAI
  /\ generatingAI = Null

====
